---- MODULE Spec2Model ----
(***************************************************************************)
(* A model of CodePack's core: the classification policy and project-type *)
(* detector (scanner.rs, plugins.rs), the tree builder (scanner.rs), the  *)
(* scan commands (commands.rs) and the content packer (packer.rs).        *)
(*                                                                         *)
(* Strings that the code inspects (file names, directory names, list      *)
(* entries) are sequences of one-character strings, so that the string    *)
(* functions the code calls are computed and not assumed.  Labels and     *)
(* fixed texts that are only compared for equality are TLA+ strings.      *)
(***************************************************************************)
EXTENDS Integers, Sequences, FiniteSets, TLC

\* ------------------------------------------------------------------------
\* Strings
\* ------------------------------------------------------------------------

\* The printable ASCII characters in code order; Ascii[i] has code 31 + i
\* ("grave" stands for the character of code 96, which no name here uses).
Ascii ==
  <<
     " ", "!", "\"", "#", "$", "%", "&", "'", "(", ")", "*", "+", ",", "-", ".", "/",
     "0", "1", "2", "3", "4", "5", "6", "7", "8", "9", ":", ";", "<", "=", ">", "?",
     "@", "A", "B", "C", "D", "E", "F", "G", "H", "I", "J", "K", "L", "M", "N", "O",
     "P", "Q", "R", "S", "T", "U", "V", "W", "X", "Y", "Z", "[", "\\", "]", "^", "_",
     "grave", "a", "b", "c", "d", "e", "f", "g", "h", "i", "j", "k", "l", "m", "n", "o",
     "p", "q", "r", "s", "t", "u", "v", "w", "x", "y", "z", "{", "|", "}", "~"
  >>

Chars == {Ascii[i] : i \in 1..Len(Ascii)}

CodeOf == [c \in Chars |-> 31 + (CHOOSE i \in 1..Len(Ascii) : Ascii[i] = c)]

Code(c) == CodeOf[c]

\* char::to_ascii_lowercase
LowerOf == [c \in Chars |-> IF CodeOf[c] \in 65..90 THEN Ascii[CodeOf[c] + 32 - 31] ELSE c]

LowerChar(c) == LowerOf[c]

\* str::to_lowercase, on ASCII names
to_lowercase(s) == [i \in 1..Len(s) |-> LowerChar(s[i])]

\* str::eq_ignore_ascii_case
eq_ignore_ascii_case(a, b) ==
  /\ Len(a) = Len(b)
  /\ \A i \in 1..Len(a) : LowerChar(a[i]) = LowerChar(b[i])

\* str::starts_with and str::ends_with
starts_with(s, p) == Len(p) <= Len(s) /\ SubSeq(s, 1, Len(p)) = p

ends_with(s, p) == Len(p) <= Len(s) /\ SubSeq(s, Len(s) - Len(p) + 1, Len(s)) = p

\* Ord for str: lexicographic by character code, a proper prefix first.
StrLess(a, b) ==
  \E k \in 1..(Len(a) + 1) :
    /\ \A i \in 1..(k - 1) : i <= Len(b) /\ a[i] = b[i]
    /\ \/ k = Len(a) + 1 /\ Len(b) >= k
       \/ k <= Len(a) /\ k <= Len(b) /\ Code(a[k]) < Code(b[k])

\* Option values.
None == [some |-> FALSE]

Some(v) == [some |-> TRUE, v |-> v]

\* Path::extension of a file name: None without an embedded '.', None when
\* the only '.' is the leading one, otherwise the text after the last '.'.
extension(name) ==
  LET dots == {i \in 2..Len(name) : name[i] = "."}
  IN  IF dots = {} THEN None
      ELSE LET last == CHOOSE i \in dots : \A j \in dots : j <= i
           IN  Some(SubSeq(name, last + 1, Len(name)))

\* ------------------------------------------------------------------------
\* Classification policy (scanner.rs)
\* ------------------------------------------------------------------------

EXCLUDED_DIRS ==
  << <<"n", "o", "d", "e", "_", "m", "o", "d", "u", "l", "e", "s">>,
     <<"b", "u", "i", "l", "d">>,
     <<"d", "i", "s", "t">>,
     <<".", "g", "r", "a", "d", "l", "e">>,
     <<".", "i", "d", "e", "a">>,
     <<".", "v", "s", "c", "o", "d", "e">>,
     <<"_", "_", "p", "y", "c", "a", "c", "h", "e", "_", "_">>,
     <<".", "g", "i", "t">>,
     <<".", "s", "v", "n">>,
     <<".", "h", "g">>,
     <<"t", "a", "r", "g", "e", "t">>,
     <<".", "n", "e", "x", "t">>,
     <<".", "n", "u", "x", "t">>,
     <<".", "o", "u", "t", "p", "u", "t">>,
     <<"v", "e", "n", "v">>,
     <<".", "v", "e", "n", "v">>,
     <<"e", "n", "v">>,
     <<".", "e", "n", "v">>,
     <<".", "d", "a", "r", "t", "_", "t", "o", "o", "l">>,
     <<".", "p", "u", "b", "-", "c", "a", "c", "h", "e">>,
     <<"P", "o", "d", "s">>,
     <<"D", "e", "r", "i", "v", "e", "d", "D", "a", "t", "a">>,
     <<".", "c", "a", "c", "h", "e">>,
     <<"c", "o", "v", "e", "r", "a", "g", "e">>,
     <<".", "t", "u", "r", "b", "o">>,
     <<"o", "u", "t">>,
     <<".", "D", "S", "_", "S", "t", "o", "r", "e">>,
     <<"b", "i", "n">>,
     <<"o", "b", "j">>,
     <<".", "t", "o", "x">>,
     <<"v", "e", "n", "d", "o", "r">>,
     <<".", "b", "u", "n", "d", "l", "e">>,
     <<".", "s", "w", "i", "f", "t", "p", "m">> >>

SOURCE_EXTENSIONS ==
  << <<"r", "s">>,
     <<"t", "s">>,
     <<"t", "s", "x">>,
     <<"j", "s">>,
     <<"j", "s", "x">>,
     <<"v", "u", "e">>,
     <<"s", "v", "e", "l", "t", "e">>,
     <<"p", "y">>,
     <<"k", "t">>,
     <<"k", "t", "s">>,
     <<"j", "a", "v", "a">>,
     <<"d", "a", "r", "t">>,
     <<"g", "o">>,
     <<"r", "b">>,
     <<"p", "h", "p">>,
     <<"s", "w", "i", "f", "t">>,
     <<"c">>,
     <<"c", "p", "p">>,
     <<"h">>,
     <<"h", "p", "p">>,
     <<"c", "s">>,
     <<"m">>,
     <<"m", "m">>,
     <<"s", "c", "a", "l", "a">>,
     <<"c", "l", "j">>,
     <<"e", "x">>,
     <<"e", "x", "s">>,
     <<"h", "s">>,
     <<"l", "u", "a">>,
     <<"r">>,
     <<"j", "l">>,
     <<"s", "q", "l">>,
     <<"s", "h">>,
     <<"b", "a", "s", "h">>,
     <<"z", "s", "h">>,
     <<"f", "i", "s", "h">>,
     <<"b", "a", "t">>,
     <<"p", "s", "1">>,
     <<"y", "m", "l">>,
     <<"y", "a", "m", "l">>,
     <<"t", "o", "m", "l">>,
     <<"j", "s", "o", "n">>,
     <<"x", "m", "l">>,
     <<"h", "t", "m", "l">>,
     <<"c", "s", "s">>,
     <<"s", "c", "s", "s">>,
     <<"s", "a", "s", "s">>,
     <<"l", "e", "s", "s">>,
     <<"m", "d">>,
     <<"m", "d", "x">>,
     <<"t", "x", "t">>,
     <<"c", "f", "g">>,
     <<"i", "n", "i">>,
     <<"c", "o", "n", "f">>,
     <<"e", "n", "v">>,
     <<"d", "o", "c", "k", "e", "r", "f", "i", "l", "e">>,
     <<"m", "a", "k", "e", "f", "i", "l", "e">>,
     <<"c", "m", "a", "k", "e">>,
     <<"g", "r", "a", "d", "l", "e">>,
     <<"p", "r", "o", "p", "e", "r", "t", "i", "e", "s">>,
     <<"g", "i", "t", "i", "g", "n", "o", "r", "e">>,
     <<"e", "d", "i", "t", "o", "r", "c", "o", "n", "f", "i", "g">>,
     <<"e", "s", "l", "i", "n", "t", "r", "c">>,
     <<"p", "r", "e", "t", "t", "i", "e", "r", "r", "c">>,
     <<"g", "r", "a", "p", "h", "q", "l">>,
     <<"g", "q", "l">>,
     <<"p", "r", "o", "t", "o">>,
     <<"t", "f">>,
     <<"h", "c", "l">>,
     <<"n", "i", "x">>,
     <<"a", "s", "t", "r", "o">>,
     <<"m", "o", "d">>,
     <<"s", "u", "m">>,
     <<"l", "o", "c", "k">> >>

BUILD_FILE_NAMES ==
  << <<"d", "o", "c", "k", "e", "r", "f", "i", "l", "e">>,
     <<"m", "a", "k", "e", "f", "i", "l", "e">>,
     <<"c", "m", "a", "k", "e", "l", "i", "s", "t", "s", ".", "t", "x", "t">>,
     <<"r", "a", "k", "e", "f", "i", "l", "e">>,
     <<"g", "e", "m", "f", "i", "l", "e">>,
     <<"p", "r", "o", "c", "f", "i", "l", "e">>,
     <<"j", "u", "s", "t", "f", "i", "l", "e">>,
     <<"t", "a", "s", "k", "f", "i", "l", "e">>,
     <<"v", "a", "g", "r", "a", "n", "t", "f", "i", "l", "e">> >>

\* A variant of is_excluded_dir that compares the names as they are written.
is_excluded_dir_case_sensitive(name, extra_excludes) ==
  \/ \E i \in DOMAIN EXCLUDED_DIRS : name = EXCLUDED_DIRS[i]
  \/ \E i \in DOMAIN extra_excludes : name = extra_excludes[i]

is_excluded_dir(name, extra_excludes) ==
  \/ \E i \in DOMAIN EXCLUDED_DIRS : eq_ignore_ascii_case(name, EXCLUDED_DIRS[i])
  \/ \E i \in DOMAIN extra_excludes : eq_ignore_ascii_case(name, extra_excludes[i])

is_source_file(name, extra_extensions) ==
  LET lower == to_lowercase(name)
  IN  IF \E i \in DOMAIN BUILD_FILE_NAMES : lower = BUILD_FILE_NAMES[i]
      THEN TRUE
      ELSE LET ext == extension(name)
           IN  IF ext.some
               THEN \/ \E i \in DOMAIN SOURCE_EXTENSIONS :
                         eq_ignore_ascii_case(SOURCE_EXTENSIONS[i], ext.v)
                    \/ \E i \in DOMAIN extra_extensions :
                         eq_ignore_ascii_case(extra_extensions[i], ext.v)
               ELSE FALSE

\* ------------------------------------------------------------------------
\* The file system: a function from paths to entries.  A path is a sequence
\* of names; an entry is [kind, size, utf8, nl]: a directory or a file, its
\* length in bytes, whether its bytes decode as UTF-8 and whether its text
\* ends with a newline (a directory has the length its stat reports).
\* ------------------------------------------------------------------------

DirEntry == [kind |-> "dir", size |-> 4096, utf8 |-> FALSE, nl |-> FALSE]

FileEntry(size, utf8, nl) == [kind |-> "file", size |-> size, utf8 |-> utf8, nl |-> nl]

\* Path::join with a one-component name, Path::exists, Path::is_dir
join(path, name) == Append(path, name)

exists(f, path) == path \in DOMAIN f

is_dir(f, path) == path \in DOMAIN f /\ f[path].kind = "dir"

\* Path::parent and Path::file_name
parent(path) == SubSeq(path, 1, Len(path) - 1)

file_name(path) == path[Len(path)]

\* Path::starts_with: prefix by whole components
path_starts_with(path, base) ==
  Len(base) <= Len(path) /\ SubSeq(path, 1, Len(base)) = base

\* The entries directly inside a directory.
ChildPaths(f, dir) == {p \in DOMAIN f : Len(p) = Len(dir) + 1 /\ parent(p) = dir}

\* The sequences that list every element of a set once.
RECURSIVE Orders(_)
Orders(S) ==
  IF S = {} THEN {<<>>}
  ELSE UNION {{<<x>> \o s : s \in Orders(S \ {x})} : x \in S}

\* fs::read_dir promises no order: every listing of the directory's names.
Listings(f, dir) == Orders({file_name(p) : p \in ChildPaths(f, dir)})

\* ------------------------------------------------------------------------
\* Project type detection (plugins.rs, scanner.rs)
\* ------------------------------------------------------------------------

\* A variant of plugin_matches without the test that a rule is there.
plugin_matches_without_rules(f, plugin, root) ==
  /\ \A i \in DOMAIN plugin.detect_files : exists(f, join(root, plugin.detect_files[i]))
  /\ \A i \in DOMAIN plugin.detect_dirs : is_dir(f, join(root, plugin.detect_dirs[i]))

plugin_matches(f, plugin, root) ==
  LET files_match ==
        \/ plugin.detect_files = <<>>
        \/ \A i \in DOMAIN plugin.detect_files :
             exists(f, join(root, plugin.detect_files[i]))
      dirs_match ==
        \/ plugin.detect_dirs = <<>>
        \/ \A i \in DOMAIN plugin.detect_dirs :
             is_dir(f, join(root, plugin.detect_dirs[i]))
  IN  /\ plugin.detect_files # <<>> \/ plugin.detect_dirs # <<>>
      /\ files_match
      /\ dirs_match

\* The three framework prefixes are tested on each listed name in turn, so
\* the first listed name with one of the prefixes decides.
js_framework(listing) ==
  LET hits == SelectSeq(listing, LAMBDA n :
                \/ starts_with(n, <<"n", "e", "x", "t", ".", "c", "o", "n", "f", "i", "g">>)
                \/ starts_with(n, <<"n", "u", "x", "t", ".", "c", "o", "n", "f", "i", "g">>)
                \/ starts_with(n, <<"v", "i", "t", "e", ".", "c", "o", "n", "f", "i", "g">>))
  IN  IF hits = <<>> THEN None
      ELSE IF starts_with(hits[1], <<"n", "e", "x", "t", ".", "c", "o", "n", "f", "i", "g">>) THEN Some("Next.js")
      ELSE IF starts_with(hits[1], <<"n", "u", "x", "t", ".", "c", "o", "n", "f", "i", "g">>) THEN Some("Nuxt.js")
      ELSE Some("Vite")

\* A variant of detect_project_type that looks for package.json before the
\* framework configuration files.
detect_project_type_node_first(f, root, listing) ==
  LET has(name) == exists(f, join(root, name))
      has_c_files == \E i \in DOMAIN listing :
                       ends_with(listing[i], <<".", "c">>) \/ ends_with(listing[i], <<".", "h">>)
  IN  IF has(<<"b", "u", "i", "l", "d", ".", "g", "r", "a", "d", "l", "e", ".", "k", "t", "s">>) \/ has(<<"b", "u", "i", "l", "d", ".", "g", "r", "a", "d", "l", "e">>)
      THEN IF is_dir(f, join(root, <<"a", "p", "p">>)) \/ has(<<"A", "n", "d", "r", "o", "i", "d", "M", "a", "n", "i", "f", "e", "s", "t", ".", "x", "m", "l">>)
           THEN "Android / Gradle"
           ELSE "Gradle"
      ELSE IF has(<<"p", "u", "b", "s", "p", "e", "c", ".", "y", "a", "m", "l">>) THEN "Flutter / Dart"
      ELSE IF has(<<"C", "a", "r", "g", "o", ".", "t", "o", "m", "l">>) THEN "Rust"
      ELSE IF has(<<"g", "o", ".", "m", "o", "d">>) THEN "Go"
      ELSE IF has(<<"p", "o", "m", ".", "x", "m", "l">>) THEN "Java / Maven"
      ELSE IF has(<<"P", "a", "c", "k", "a", "g", "e", ".", "s", "w", "i", "f", "t">>) THEN "Swift"
      ELSE IF has(<<"C", "M", "a", "k", "e", "L", "i", "s", "t", "s", ".", "t", "x", "t">>) THEN "C++ / CMake"
      ELSE IF (has(<<"M", "a", "k", "e", "f", "i", "l", "e">>) \/ has(<<"m", "a", "k", "e", "f", "i", "l", "e">>)) /\ has_c_files THEN "C"
      ELSE IF has(<<"G", "e", "m", "f", "i", "l", "e">>) THEN "Ruby"
      ELSE IF has(<<"d", "o", "c", "k", "e", "r", "-", "c", "o", "m", "p", "o", "s", "e", ".", "y", "m", "l">>) \/ has(<<"d", "o", "c", "k", "e", "r", "-", "c", "o", "m", "p", "o", "s", "e", ".", "y", "a", "m", "l">>) THEN "Docker"
      ELSE IF has(<<"p", "a", "c", "k", "a", "g", "e", ".", "j", "s", "o", "n">>) THEN "Node.js"
      ELSE IF js_framework(listing).some THEN js_framework(listing).v
      ELSE IF has(<<"p", "y", "p", "r", "o", "j", "e", "c", "t", ".", "t", "o", "m", "l">>) \/ has(<<"r", "e", "q", "u", "i", "r", "e", "m", "e", "n", "t", "s", ".", "t", "x", "t">>) \/ has(<<"s", "e", "t", "u", "p", ".", "p", "y">>)
      THEN "Python"
      ELSE "generic"

detect_project_type(f, root, listing) ==
  LET has(name) == exists(f, join(root, name))
      has_c_files == \E i \in DOMAIN listing :
                       ends_with(listing[i], <<".", "c">>) \/ ends_with(listing[i], <<".", "h">>)
  IN  IF has(<<"b", "u", "i", "l", "d", ".", "g", "r", "a", "d", "l", "e", ".", "k", "t", "s">>) \/ has(<<"b", "u", "i", "l", "d", ".", "g", "r", "a", "d", "l", "e">>)
      THEN IF is_dir(f, join(root, <<"a", "p", "p">>)) \/ has(<<"A", "n", "d", "r", "o", "i", "d", "M", "a", "n", "i", "f", "e", "s", "t", ".", "x", "m", "l">>)
           THEN "Android / Gradle"
           ELSE "Gradle"
      ELSE IF has(<<"p", "u", "b", "s", "p", "e", "c", ".", "y", "a", "m", "l">>) THEN "Flutter / Dart"
      ELSE IF has(<<"C", "a", "r", "g", "o", ".", "t", "o", "m", "l">>) THEN "Rust"
      ELSE IF has(<<"g", "o", ".", "m", "o", "d">>) THEN "Go"
      ELSE IF has(<<"p", "o", "m", ".", "x", "m", "l">>) THEN "Java / Maven"
      ELSE IF has(<<"P", "a", "c", "k", "a", "g", "e", ".", "s", "w", "i", "f", "t">>) THEN "Swift"
      ELSE IF has(<<"C", "M", "a", "k", "e", "L", "i", "s", "t", "s", ".", "t", "x", "t">>) THEN "C++ / CMake"
      ELSE IF (has(<<"M", "a", "k", "e", "f", "i", "l", "e">>) \/ has(<<"m", "a", "k", "e", "f", "i", "l", "e">>)) /\ has_c_files THEN "C"
      ELSE IF has(<<"G", "e", "m", "f", "i", "l", "e">>) THEN "Ruby"
      ELSE IF has(<<"d", "o", "c", "k", "e", "r", "-", "c", "o", "m", "p", "o", "s", "e", ".", "y", "m", "l">>) \/ has(<<"d", "o", "c", "k", "e", "r", "-", "c", "o", "m", "p", "o", "s", "e", ".", "y", "a", "m", "l">>) THEN "Docker"
      ELSE IF js_framework(listing).some THEN js_framework(listing).v
      ELSE IF has(<<"p", "y", "p", "r", "o", "j", "e", "c", "t", ".", "t", "o", "m", "l">>) \/ has(<<"r", "e", "q", "u", "i", "r", "e", "m", "e", "n", "t", "s", ".", "t", "x", "t">>) \/ has(<<"s", "e", "t", "u", "p", ".", "p", "y">>)
      THEN "Python"
      ELSE IF has(<<"p", "a", "c", "k", "a", "g", "e", ".", "j", "s", "o", "n">>) THEN "Node.js"
      ELSE "generic"

detect_project_type_with_plugins(f, root, plugins, listing) ==
  LET matching == {i \in DOMAIN plugins : plugin_matches(f, plugins[i], root)}
  IN  IF matching # {}
      THEN plugins[CHOOSE i \in matching : \A j \in matching : i <= j].name
      ELSE detect_project_type(f, root, listing)

\* plugins::get_plugin_excluded_dirs and get_plugin_source_extensions
RECURSIVE Flatten(_)
Flatten(seqs) == IF seqs = <<>> THEN <<>> ELSE Head(seqs) \o Flatten(Tail(seqs))

get_plugin_excluded_dirs(plugins) ==
  Flatten([i \in DOMAIN plugins |-> plugins[i].exclude_dirs])

get_plugin_source_extensions(plugins) ==
  Flatten([i \in DOMAIN plugins |-> plugins[i].source_extensions])

\* ------------------------------------------------------------------------
\* Tree builder (scanner.rs)
\* ------------------------------------------------------------------------

\* Paths with different last names, in the bytewise order of those names:
\* the order of sort_by_file_name(|a, b| a.cmp(b)) within a directory, and the
\* order of the keys of a BTreeMap<String, _>.
sort_by_file_name(S) ==
  [k \in 1..Cardinality(S) |->
     CHOOSE x \in S :
       Cardinality({y \in S : StrLess(file_name(y), file_name(x))}) = k - 1]

\* The walker's hidden filter: the entry's own name starts with a dot.
is_hidden(name) == Len(name) > 0 /\ name[1] = "."

\* The override globs "!<dir>/**" that build_file_tree adds for every entry
\* of EXCLUDED_DIRS and extra_excludes: a glob with a '/' is anchored at the
\* root and compared case-sensitively, and "/**" matches what is inside the
\* directory, not the directory.  rel is the path below the root.
override_ignored(rel, extra_excludes) ==
  /\ Len(rel) >= 2
  /\ \/ \E i \in DOMAIN EXCLUDED_DIRS : EXCLUDED_DIRS[i] = rel[1]
     \/ \E i \in DOMAIN extra_excludes : extra_excludes[i] = rel[1]

\* A variant of walker_skips for a walker built with hidden(false).
walker_skips_keeping_hidden(root, path, extra_excludes, ignored) ==
  \/ override_ignored(SubSeq(path, Len(root) + 1, Len(path)), extra_excludes)
  \/ file_name(path) \in ignored

\* What the walker configured in build_file_tree leaves out: entries matched
\* by an override glob, entries matched by an ignore rule (ignored: the names
\* the working tree's ignore files match, at any depth) and hidden entries.
walker_skips(root, path, extra_excludes, ignored) ==
  \/ override_ignored(SubSeq(path, Len(root) + 1, Len(path)), extra_excludes)
  \/ file_name(path) \in ignored
  \/ is_hidden(file_name(path))

\* The walk below dir in the walker's order: names sorted bytewise
\* (sort_by_file_name), a directory before its content; a skipped directory is
\* not entered.
RECURSIVE walk(_, _, _, _, _)
walk(f, root, dir, extra_excludes, ignored) ==
  LET kept == {p \in ChildPaths(f, dir) : ~walker_skips(root, p, extra_excludes, ignored)}
      kids == sort_by_file_name(kept)
  IN  Flatten([i \in DOMAIN kids |->
        <<kids[i]>> \o (IF is_dir(f, kids[i])
                        THEN walk(f, root, kids[i], extra_excludes, ignored)
                        ELSE <<>>)])

FileNode(name, path, is_dir_, children) ==
  [name |-> name, path |-> path, is_dir |-> is_dir_, children |-> children,
   checked |-> TRUE]

\* HashMap::entry(key).or_default() and .push(node)
or_default(dc, key) == IF key \in DOMAIN dc THEN dc ELSE dc @@ (key :> <<>>)

push_child(dc, key, node) ==
  LET d == or_default(dc, key) IN [d EXCEPT ![key] = Append(@, node)]

\* The loop over the walker's entries: acc is [dir_children, seen_dirs].
RECURSIVE collect_entries(_, _, _, _, _, _)
collect_entries(f, root, entries, extra_excludes, extra_extensions, acc) ==
  IF entries = <<>> THEN acc
  ELSE
    LET path == Head(entries)
        name == file_name(path)
        next ==
          IF path = root THEN acc
          ELSE IF is_dir(f, path)
          THEN IF is_excluded_dir(name, extra_excludes) THEN acc
               ELSE [dir_children |-> or_default(acc.dir_children, path),
                     seen_dirs |-> Append(acc.seen_dirs, path)]
          ELSE IF ~is_source_file(name, extra_extensions) THEN acc
               ELSE [acc EXCEPT !.dir_children =
                       push_child(@, parent(path), FileNode(name, path, FALSE, <<>>))]
    IN  collect_entries(f, root, Tail(entries), extra_excludes, extra_extensions, next)

\* A variant of attach_dirs that makes a node of every seen directory, the
\* ones without children included.
RECURSIVE attach_dirs_keeping_empty(_, _)
attach_dirs_keeping_empty(dirs, dc) ==
  IF dirs = <<>> THEN dc
  ELSE
    LET dir_path == Head(dirs)
        children == IF dir_path \in DOMAIN dc THEN dc[dir_path] ELSE <<>>
        removed == [p \in DOMAIN dc \ {dir_path} |-> dc[p]]
    IN  attach_dirs_keeping_empty(Tail(dirs),
          push_child(removed, parent(dir_path),
                     FileNode(file_name(dir_path), dir_path, TRUE, children)))

\* The bottom-up pass: each seen directory that has children becomes a node
\* among the children of its parent.
RECURSIVE attach_dirs(_, _)
attach_dirs(dirs, dc) ==
  IF dirs = <<>> THEN dc
  ELSE
    LET dir_path == Head(dirs)
        children == IF dir_path \in DOMAIN dc THEN dc[dir_path] ELSE <<>>
        removed == [p \in DOMAIN dc \ {dir_path} |-> dc[p]]
    IN  IF children = <<>> THEN attach_dirs(Tail(dirs), removed)
        ELSE attach_dirs(Tail(dirs),
               push_child(removed, parent(dir_path),
                          FileNode(file_name(dir_path), dir_path, TRUE, children)))

\* A variant of node_less that compares the names as they are written.
node_less_case_sensitive(a, b) ==
  \/ a.is_dir /\ ~b.is_dir
  \/ a.is_dir = b.is_dir /\ StrLess(a.name, b.name)

node_less(a, b) ==
  \/ a.is_dir /\ ~b.is_dir
  \/ a.is_dir = b.is_dir /\ StrLess(to_lowercase(a.name), to_lowercase(b.name))

\* children.sort_by: the sort is stable, so a child moves behind every child
\* that is smaller and behind the equal ones that came before it.
sort_children(s) ==
  LET pos(i) == 1 + Cardinality({j \in DOMAIN s :
                      \/ node_less(s[j], s[i])
                      \/ ~node_less(s[i], s[j]) /\ j < i})
  IN  [k \in DOMAIN s |-> s[CHOOSE i \in DOMAIN s : pos(i) = k]]

RECURSIVE sort_tree(_)
sort_tree(node) ==
  LET sorted == sort_children(node.children)
  IN  [node EXCEPT !.children =
        [i \in DOMAIN sorted |->
           IF sorted[i].is_dir THEN sort_tree(sorted[i]) ELSE sorted[i]]]

\* seen_dirs.sort_by_key(Reverse(components().count())): deepest first, the
\* directories of one depth in the order they were seen.
sort_by_depth(s) ==
  LET pos(i) == 1 + Cardinality({j \in DOMAIN s :
                      \/ Len(s[j]) > Len(s[i])
                      \/ Len(s[j]) = Len(s[i]) /\ j < i})
  IN  [k \in DOMAIN s |-> s[CHOOSE i \in DOMAIN s : pos(i) = k]]

build_file_tree(f, root, extra_excludes, extra_extensions, ignored) ==
  LET entries == <<root>> \o walk(f, root, root, extra_excludes, ignored)
      acc == collect_entries(f, root, entries, extra_excludes, extra_extensions,
                             [dir_children |-> << >>, seen_dirs |-> <<>>])
      by_depth == sort_by_depth(acc.seen_dirs)
      dc == attach_dirs(by_depth, acc.dir_children)
  IN  sort_tree(FileNode(file_name(root), root, TRUE,
                         IF root \in DOMAIN dc THEN dc[root] ELSE <<>>))

RECURSIVE SumSeq(_)
SumSeq(s) == IF s = <<>> THEN 0 ELSE Head(s) + SumSeq(Tail(s))

\* A variant of count_files that counts every node.
RECURSIVE count_nodes(_)
count_nodes(node) ==
  1 + SumSeq([i \in DOMAIN node.children |-> count_nodes(node.children[i])])

RECURSIVE count_files(_)
count_files(node) ==
  (IF ~node.is_dir THEN 1 ELSE 0)
  + SumSeq([i \in DOMAIN node.children |-> count_files(node.children[i])])

\* The nodes of a tree, the root included, and the paths of its file nodes in
\* tree order (the paths a caller that selects every file hands to pack).
RECURSIVE tree_nodes(_)
tree_nodes(node) ==
  {node} \cup UNION {tree_nodes(node.children[i]) : i \in DOMAIN node.children}

RECURSIVE leaf_paths(_)
leaf_paths(node) ==
  IF ~node.is_dir THEN <<node.path>>
  ELSE Flatten([i \in DOMAIN node.children |-> leaf_paths(node.children[i])])

\* ------------------------------------------------------------------------
\* Content packer (packer.rs)
\*
\* A text is a sequence of groups [toks, times]: the tokens toks written
\* times times in a row.  A token [w, p, n] is a fragment of a format string
\* (w) with the name or path (p) or the number (n) it is filled with.  A
\* path list, and the list of skipped files, hold [.., times] entries in the
\* same way: times occurrences in a row of the same path.  The runs let a
\* list of MAX_FILE_COUNT paths and more be written down.  In the format
\* strings ' is written for the backquote of the Markdown forms.
\* ------------------------------------------------------------------------

DEFAULT_MAX_FILE_BYTES == 1048576

MAX_FILE_COUNT == 5000

Tok(w) == [w |-> w, p |-> <<>>, n |-> 0]

TokP(w, p) == [w |-> w, p |-> p, n |-> 0]

TokN(w, n) == [w |-> w, p |-> <<>>, n |-> n]

Rep(toks, times) == IF times = 0 THEN <<>> ELSE <<[toks |-> toks, times |-> times]>>

\* The number of entries a run list stands for.
Count(runs) == SumSeq([i \in DOMAIN runs |-> runs[i].times])

\* The tokenizer (BPE.encode_ordinary(text).len()) stands as the number of
\* tokens of the text: additive over concatenation, 0 on the empty text.
encode_ordinary_len(text) ==
  SumSeq([i \in DOMAIN text |-> Len(text[i].toks) * text[i].times])

\* Path::strip_prefix(root).unwrap_or(path), as the list of its components
relative_of(path, root) ==
  IF path_starts_with(path, root) THEN SubSeq(path, Len(root) + 1, Len(path)) ELSE path

xml_escape(s) ==
  Flatten([i \in DOMAIN s |->
    IF s[i] = "&" THEN <<"&", "a", "m", "p", ";">>
    ELSE IF s[i] = "<" THEN <<"&", "l", "t", ";">>
    ELSE IF s[i] = ">" THEN <<"&", "g", "t", ";">>
    ELSE IF s[i] = "\"" THEN <<"&", "q", "u", "o", "t", ";">>
    ELSE <<s[i]>>])

\* xml_escape of a path text: '/' is kept, so it is the escape of each component
xml_escape_path(rel) == [i \in DOMAIN rel |-> xml_escape(rel[i])]

\* The extension of a relative path text, lowercased or as written
path_extension(rel) == IF rel = <<>> THEN None ELSE extension(file_name(rel))

comment_delimiter(relative_path) ==
  LET e == path_extension(relative_path)
      ext == IF e.some THEN to_lowercase(e.v) ELSE <<>>
  IN  IF ext \in {<<"h", "t", "m", "l">>, <<"x", "m", "l">>, <<"s", "v", "g">>, <<"v", "u", "e">>, <<"s", "v", "e", "l", "t", "e">>} THEN "<!--"
      ELSE IF ext \in {<<"c", "s", "s">>, <<"s", "c", "s", "s">>, <<"s", "a", "s", "s">>, <<"l", "e", "s", "s">>} THEN "/*"
      ELSE IF ext \in {<<"p", "y">>, <<"r", "b">>, <<"s", "h">>, <<"b", "a", "s", "h">>, <<"z", "s", "h">>, <<"f", "i", "s", "h">>, <<"y", "a", "m", "l">>, <<"y", "m", "l">>,
                       <<"t", "o", "m", "l">>, <<"i", "n", "i">>, <<"c", "f", "g">>, <<"c", "o", "n", "f">>, <<"r">>, <<"j", "l">>, <<"p", "l">>} THEN "#"
      ELSE IF ext \in {<<"s", "q", "l">>, <<"l", "u", "a">>, <<"h", "s">>} THEN "--"
      ELSE IF ext = <<"b", "a", "t">> THEN "REM"
      ELSE "//"

\* A variant of stat_len that takes a path that cannot be examined for a
\* file larger than every limit.
stat_len_huge_on_failure(f, path) ==
  IF exists(f, path) THEN f[path].size ELSE 2 * DEFAULT_MAX_FILE_BYTES

\* fs::metadata(path).map(|m| m.len()).unwrap_or(0) and fs::read_to_string(path)
stat_len(f, path) == IF exists(f, path) THEN f[path].size ELSE 0

read_to_string_ok(f, path) == exists(f, path) /\ f[path].kind = "file" /\ f[path].utf8

\* The content of a file that was read: its bytes, as one token.
content_tok(f, path) == [w |-> "content", p |-> path, n |-> f[path].size]

size_reason(limit, file_size) ==
  <<Tok("exceeds"), TokN("{}KB", limit \div 1024), Tok("limit"),
    TokN("({}KB)", file_size \div 1024)>>

binary_reason == <<Tok("binary"), Tok("or"), Tok("unreadable"), Tok("file")>>

count_reason == <<Tok("exceeds"), TokN("{}", MAX_FILE_COUNT), Tok("file"), Tok("limit")>>

SkippedFile(path, reason, size_bytes, times) ==
  [path |-> path, reason |-> reason, size_bytes |-> size_bytes, times |-> times]

\* The placeholder written into the body for a file skipped for its size
skip_placeholder(format, relative, limit, file_size) ==
  IF format = "Plain"
  THEN <<Tok(comment_delimiter(relative)), TokP(" ===== {} ", relative),
         TokN("[SKIPPED: {}KB", file_size \div 1024),
         TokN(" > {}KB limit] =====\n\n", limit \div 1024)>>
  ELSE IF format = "Markdown"
  THEN <<TokP("## {} ", relative), TokN("*(skipped: {}KB", file_size \div 1024),
         TokN(" > {}KB limit)*\n\n", limit \div 1024)>>
  ELSE <<TokP("<file path=\"{}\" skipped=\"true\"", xml_escape_path(relative)),
         TokN(" size_kb=\"{}\" />\n\n", file_size \div 1024)>>

\* The entry written into the body for an included file
file_entry(f, format, relative, path) ==
  LET newline == IF f[path].nl THEN <<>> ELSE <<Tok("\n")>>
      e == path_extension(relative)
  IN  IF format = "Plain"
      THEN <<Tok(comment_delimiter(relative)), TokP(" ===== {} =====\n", relative),
             content_tok(f, path), Tok("\n\n")>>
      ELSE IF format = "Markdown"
      THEN <<TokP("## {}\n\n", relative),
             TokP("'''{}\n", IF e.some THEN <<e.v>> ELSE <<>>),
             content_tok(f, path)>> \o newline \o <<Tok("'''\n\n")>>
      ELSE <<TokP("<file path=\"{}\">\n", xml_escape_path(relative)), Tok("<![CDATA[\n"),
             content_tok(f, path)>> \o newline \o <<Tok("]]>\n"), Tok("</file>\n\n")>>

\* A variant of the size test that also skips a file of exactly the limit.
reaches_limit(file_size, limit) == file_size >= limit

\* The size test of the loop: file_size > limit
exceeds_limit(file_size, limit) == file_size > limit

\* A variant of pack_path without the test of the file count.
pack_path_uncapped(f, root, format, limit, run, st) ==
  LET path == run.path
      relative == relative_of(path, root)
      file_size == stat_len(f, path)
  IN  IF exceeds_limit(file_size, limit)
      THEN [st EXCEPT
             !.skipped_files = @ \o <<SkippedFile(relative, size_reason(limit, file_size),
                                                   file_size, run.times)>>,
             !.body = @ \o Rep(skip_placeholder(format, relative, limit, file_size),
                                run.times)]
      ELSE IF ~read_to_string_ok(f, path)
      THEN [st EXCEPT
             !.skipped_files = @ \o <<SkippedFile(relative, binary_reason, file_size,
                                                   run.times)>>]
      ELSE [st EXCEPT
             !.total_bytes = @ + run.times * f[path].size,
             !.file_count = @ + run.times,
             !.body = @ \o Rep(file_entry(f, format, relative, path), run.times)]

\* A variant of pack_path that reads the file before it tests the size.
pack_path_reading_first(f, root, format, limit, run, st) ==
  LET path == run.path
      relative == relative_of(path, root)
      file_size == stat_len(f, path)
  IN  IF ~read_to_string_ok(f, path)
      THEN [st EXCEPT
             !.skipped_files = @ \o <<SkippedFile(relative, binary_reason, file_size,
                                                   run.times)>>]
      ELSE IF exceeds_limit(file_size, limit)
      THEN [st EXCEPT
             !.skipped_files = @ \o <<SkippedFile(relative, size_reason(limit, file_size),
                                                   file_size, run.times)>>,
             !.body = @ \o Rep(skip_placeholder(format, relative, limit, file_size),
                                run.times)]
      ELSE
        LET room == MAX_FILE_COUNT - st.file_count
            taken == IF run.times <= room THEN run.times ELSE room
            over == run.times - taken
        IN  [st EXCEPT
              !.skipped_files = @ \o (IF over = 0 THEN <<>>
                                      ELSE <<SkippedFile(relative, count_reason,
                                                         file_size, over)>>),
              !.total_bytes = @ + taken * f[path].size,
              !.file_count = @ + taken,
              !.body = @ \o Rep(file_entry(f, format, relative, path), taken)]

\* One run of the loop over the paths: times occurrences of path in a row,
\* from the loop state st = [body, file_count, total_bytes, skipped_files].
\* The occurrences that pass the size check and are read as text are included
\* while file_count is below MAX_FILE_COUNT; those after that are skipped.
pack_path(f, root, format, limit, run, st) ==
  LET path == run.path
      relative == relative_of(path, root)
      file_size == stat_len(f, path)
  IN  IF exceeds_limit(file_size, limit)
      THEN [st EXCEPT
             !.skipped_files = @ \o <<SkippedFile(relative, size_reason(limit, file_size),
                                                   file_size, run.times)>>,
             !.body = @ \o Rep(skip_placeholder(format, relative, limit, file_size),
                                run.times)]
      ELSE IF ~read_to_string_ok(f, path)
      THEN [st EXCEPT
             !.skipped_files = @ \o <<SkippedFile(relative, binary_reason, file_size,
                                                   run.times)>>]
      ELSE
        LET room == MAX_FILE_COUNT - st.file_count
            taken == IF run.times <= room THEN run.times ELSE room
            over == run.times - taken
        IN  [st EXCEPT
              !.skipped_files = @ \o (IF over = 0 THEN <<>>
                                      ELSE <<SkippedFile(relative, count_reason,
                                                         file_size, over)>>),
              !.total_bytes = @ + taken * f[path].size,
              !.file_count = @ + taken,
              !.body = @ \o Rep(file_entry(f, format, relative, path), taken)]

\* A variant of the loop that stops after the first path.
pack_first_only(f, root, format, limit, paths, st) ==
  IF paths = <<>> THEN st ELSE pack_path(f, root, format, limit, Head(paths), st)

RECURSIVE pack_loop(_, _, _, _, _, _)
pack_loop(f, root, format, limit, paths, st) ==
  IF paths = <<>> THEN st
  ELSE pack_loop(f, root, format, limit, Tail(paths),
                 pack_path(f, root, format, limit, Head(paths), st))

\* ------------------------------------------------------------------------
\* Metadata (metadata.rs)
\* ------------------------------------------------------------------------

\* A TOML value: a string, a table (its entries [key, val] in the order the
\* table hands them out, every key once) or a value of another type.
TomlString(s) == [kind |-> "string", s |-> s, entries |-> <<>>]

TomlTable(entries) == [kind |-> "table", s |-> <<>>, entries |-> entries]

TomlInteger == [kind |-> "integer", s |-> <<>>, entries |-> <<>>]

\* Table::get, Value::as_str and Value::as_table on the result of a get.
toml_get(table, key) ==
  IF \E i \in DOMAIN table.entries : table.entries[i].key = key
  THEN Some(table.entries[CHOOSE i \in DOMAIN table.entries : table.entries[i].key = key].val)
  ELSE None

as_str(v) == IF v.some /\ v.v.kind = "string" THEN Some(v.v.s) ELSE None

as_table(v) == IF v.some /\ v.v.kind = "table" THEN v ELSE None

\* A file with a TOML text: toml is what content.parse::<toml::Table>()
\* gives for it, [ok |-> FALSE] or [ok |-> TRUE, v |-> the table].
TomlFile(toml) == [kind |-> "file", size |-> 64, utf8 |-> TRUE, nl |-> TRUE, toml |-> toml]

parse_toml(f, path) == f[path].toml

\* A variant of dep_version that takes a version from a string value only.
dep_version_of_strings_only(val) ==
  IF val.kind = "string" THEN val.s ELSE <<"*">>

\* ver_str of extract_cargo_toml: the value when it is a string, the string
\* version of a table, "*" for the rest.
dep_version(val) ==
  IF as_str(Some(val)).some THEN val.s
  ELSE IF as_table(Some(val)).some
  THEN LET version == as_str(toml_get(val, <<"v", "e", "r", "s", "i", "o", "n">>))
       IN  IF version.some THEN version.v ELSE <<"*">>
  ELSE <<"*">>

extract_cargo_toml(f, root, meta) ==
  IF ~read_to_string_ok(f, join(root, <<"C", "a", "r", "g", "o", ".", "t", "o", "m", "l">>)) THEN meta
  ELSE
    LET parsed == parse_toml(f, join(root, <<"C", "a", "r", "g", "o", ".", "t", "o", "m", "l">>))
    IN  IF ~parsed.ok THEN meta
        ELSE
          LET doc == parsed.v
              pkg == as_table(toml_get(doc, <<"p", "a", "c", "k", "a", "g", "e">>))
              field(key) == IF pkg.some THEN as_str(toml_get(pkg.v, key)) ELSE None
              deps == as_table(toml_get(doc, <<"d", "e", "p", "e", "n", "d", "e", "n", "c", "i", "e", "s">>))
              dev_deps == as_table(toml_get(doc, <<"d", "e", "v", "-", "d", "e", "p", "e", "n", "d", "e", "n", "c", "i", "e", "s">>))
              keys(table) == [i \in DOMAIN table.entries |-> table.entries[i].key]
          IN  [meta EXCEPT
                 !.name = IF field(<<"n", "a", "m", "e">>).some THEN field(<<"n", "a", "m", "e">>).v ELSE @,
                 !.version = IF field(<<"v", "e", "r", "s", "i", "o", "n">>).some THEN field(<<"v", "e", "r", "s", "i", "o", "n">>) ELSE @,
                 !.description = IF field(<<"d", "e", "s", "c", "r", "i", "p", "t", "i", "o", "n">>).some /\ field(<<"d", "e", "s", "c", "r", "i", "p", "t", "i", "o", "n">>).v # <<>>
                                 THEN field(<<"d", "e", "s", "c", "r", "i", "p", "t", "i", "o", "n">>) ELSE @,
                 !.runtime = @ \o (IF field(<<"e", "d", "i", "t", "i", "o", "n">>).some
                                   THEN <<<<"r", "u", "s", "t", " ", "e", "d", "i", "t", "i", "o", "n", " ">> \o field(<<"e", "d", "i", "t", "i", "o", "n">>).v>> ELSE <<>>)
                               \o (IF field(<<"r", "u", "s", "t", "-", "v", "e", "r", "s", "i", "o", "n">>).some
                                   THEN <<<<"r", "u", "s", "t", " ", ">", "=">> \o field(<<"r", "u", "s", "t", "-", "v", "e", "r", "s", "i", "o", "n">>).v>> ELSE <<>>),
                 !.dependencies = IF deps.some THEN keys(deps.v) ELSE @,
                 !.requirements =
                   @ \o (IF deps.some
                         THEN [i \in DOMAIN deps.v.entries |->
                                 deps.v.entries[i].key \o <<"@">>
                                 \o dep_version(deps.v.entries[i].val)]
                         ELSE <<>>),
                 !.dev_dependencies = IF dev_deps.some THEN keys(dev_deps.v) ELSE @]

\* str::trim: the text without the white space at its ends.
trim(s) ==
  LET inked == {i \in DOMAIN s : s[i] \notin {" ", "\t", "\n", "\r"}}
  IN  IF inked = {} THEN <<>>
      ELSE SubSeq(s, CHOOSE i \in inked : \A j \in inked : i <= j,
                     CHOOSE i \in inked : \A j \in inked : j <= i)

\* A file with a text, as the lines str::lines hands out, and the text
\* fs::read_to_string gives for it.
TextFile(lines) == [kind |-> "file", size |-> 64, utf8 |-> TRUE, nl |-> TRUE, lines |-> lines]

RECURSIVE text_of(_)
text_of(lines) ==
  IF lines = <<>> THEN <<>> ELSE Head(lines) \o <<"\n">> \o text_of(Tail(lines))

\* A file with a JSON text: json is what serde_json::from_str gives for it,
\* [ok |-> FALSE] or [ok |-> TRUE, v |-> the value].  A value is a string, an
\* object (its entries [key, val] in the order the map hands them out) or a
\* value of another type, in the shape of the TOML values; Value::get reads
\* an object as Table::get reads a table and gives nothing for the rest.
JsonFile(json) == [kind |-> "file", size |-> 64, utf8 |-> TRUE, nl |-> TRUE, json |-> json]

parse_json(f, path) == f[path].json


\* str::split_whitespace: the words of a text.
RECURSIVE split_whitespace(_)
split_whitespace(s) ==
  IF s = <<>> THEN <<>>
  ELSE IF s[1] \in {" ", "\t", "\n", "\r"} THEN split_whitespace(Tail(s))
  ELSE LET white == {i \in DOMAIN s : s[i] \in {" ", "\t", "\n", "\r"}}
           n == IF white = {} THEN Len(s)
                ELSE (CHOOSE i \in white : \A j \in white : i <= j) - 1
       IN  <<SubSeq(s, 1, n)>> \o split_whitespace(SubSeq(s, n + 1, Len(s)))

\* s.strip_prefix(p).unwrap_or("").trim()
after_prefix(s, p) == IF starts_with(s, p) THEN trim(SubSeq(s, Len(p) + 1, Len(s))) ELSE <<>>

\* The tsconfig.json probe of extract_package_json.
ts_target(f, root) ==
  IF ~read_to_string_ok(f, join(root, <<"t", "s", "c", "o", "n", "f", "i", "g", ".", "j", "s", "o", "n">>)) THEN None
  ELSE LET ts == parse_json(f, join(root, <<"t", "s", "c", "o", "n", "f", "i", "g", ".", "j", "s", "o", "n">>))
       IN  IF ~ts.ok THEN None
           ELSE LET options == toml_get(ts.v, <<"c", "o", "m", "p", "i", "l", "e", "r", "O", "p", "t", "i", "o", "n", "s">>)
                IN  IF ~options.some THEN None
                    ELSE as_str(toml_get(options.v, <<"t", "a", "r", "g", "e", "t">>))

extract_package_json(f, root, meta) ==
  IF ~read_to_string_ok(f, join(root, <<"p", "a", "c", "k", "a", "g", "e", ".", "j", "s", "o", "n">>)) THEN meta
  ELSE
    LET parsed == parse_json(f, join(root, <<"p", "a", "c", "k", "a", "g", "e", ".", "j", "s", "o", "n">>))
    IN  IF ~parsed.ok THEN meta
        ELSE
          LET pkg == parsed.v
              field(key) == as_str(toml_get(pkg, key))
              as_object(v) == IF v.some /\ v.v.kind = "object" THEN v.v.entries ELSE <<>>
              is_object(v) == v.some /\ v.v.kind = "object"
              strings(entries) == SelectSeq(entries, LAMBDA e : e.val.kind = "string")
              keys(entries) == [i \in DOMAIN entries |-> entries[i].key]
              engines == strings(as_object(toml_get(pkg, <<"e", "n", "g", "i", "n", "e", "s">>)))
              deps == toml_get(pkg, <<"d", "e", "p", "e", "n", "d", "e", "n", "c", "i", "e", "s">>)
              dev_deps == toml_get(pkg, <<"d", "e", "v", "D", "e", "p", "e", "n", "d", "e", "n", "c", "i", "e", "s">>)
              from_engines == [i \in DOMAIN engines |->
                                 engines[i].key \o <<" ">> \o engines[i].val.s]
              rc(name) == IF read_to_string_ok(f, join(root, name))
                          THEN trim(text_of(f[join(root, name)].lines)) ELSE <<>>
              from_rc == IF meta.runtime \o from_engines # <<>> THEN <<>>
                         ELSE IF rc(<<".", "n", "v", "m", "r", "c">>) # <<>> THEN <<<<"n", "o", "d", "e", " ">> \o rc(<<".", "n", "v", "m", "r", "c">>)>>
                         ELSE IF rc(<<".", "n", "o", "d", "e", "-", "v", "e", "r", "s", "i", "o", "n">>) # <<>>
                         THEN <<<<"n", "o", "d", "e", " ">> \o rc(<<".", "n", "o", "d", "e", "-", "v", "e", "r", "s", "i", "o", "n">>)>>
                         ELSE <<>>
              target == ts_target(f, root)
          IN  [meta EXCEPT
                 !.name = IF field(<<"n", "a", "m", "e">>).some THEN field(<<"n", "a", "m", "e">>).v ELSE @,
                 !.version = IF field(<<"v", "e", "r", "s", "i", "o", "n">>).some THEN field(<<"v", "e", "r", "s", "i", "o", "n">>) ELSE @,
                 !.description = IF field(<<"d", "e", "s", "c", "r", "i", "p", "t", "i", "o", "n">>).some /\ field(<<"d", "e", "s", "c", "r", "i", "p", "t", "i", "o", "n">>).v # <<>>
                                 THEN field(<<"d", "e", "s", "c", "r", "i", "p", "t", "i", "o", "n">>) ELSE @,
                 !.entry_point = IF field(<<"m", "a", "i", "n">>).some THEN field(<<"m", "a", "i", "n">>) ELSE @,
                 !.runtime = @ \o from_engines \o from_rc
                             \o (IF target.some THEN <<<<"t", "s", " ", "t", "a", "r", "g", "e", "t", ":", " ">> \o target.v>> ELSE <<>>),
                 !.dependencies = IF is_object(deps) THEN keys(as_object(deps)) ELSE @,
                 !.requirements =
                   @ \o [i \in DOMAIN strings(as_object(deps)) |->
                           strings(as_object(deps))[i].key \o <<"@">>
                           \o strings(as_object(deps))[i].val.s],
                 !.dev_dependencies = IF is_object(dev_deps) THEN keys(as_object(dev_deps))
                                      ELSE @]

\* A variant of go_require that does not leave the block at ")".
RECURSIVE go_require_never_leaving(_, _, _)
go_require_never_leaving(lines, in_require, meta) ==
  IF lines = <<>> THEN meta
  ELSE
    LET trimmed == trim(Head(lines))
        parts == split_whitespace(trimmed)
    IN  IF trimmed = <<"r", "e", "q", "u", "i", "r", "e", " ", "(">> THEN go_require_never_leaving(Tail(lines), TRUE, meta)
        ELSE IF trimmed = <<")">> THEN go_require_never_leaving(Tail(lines), in_require, meta)
        ELSE IF in_require /\ trimmed # <<>> /\ ~starts_with(trimmed, <<"/", "/">>)
        THEN go_require_never_leaving(Tail(lines), in_require,
               [meta EXCEPT
                  !.dependencies = IF parts # <<>> THEN Append(@, parts[1]) ELSE @,
                  !.requirements = IF Len(parts) >= 2
                                   THEN Append(@, parts[1] \o <<"@">> \o parts[2]) ELSE @])
        ELSE go_require_never_leaving(Tail(lines), in_require, meta)

\* The second loop of extract_go_mod, from the line it is at, with its flag
\* in_require.
RECURSIVE go_require(_, _, _)
go_require(lines, in_require, meta) ==
  IF lines = <<>> THEN meta
  ELSE
    LET trimmed == trim(Head(lines))
        parts == split_whitespace(trimmed)
    IN  IF trimmed = <<"r", "e", "q", "u", "i", "r", "e", " ", "(">> THEN go_require(Tail(lines), TRUE, meta)
        ELSE IF trimmed = <<")">> THEN go_require(Tail(lines), FALSE, meta)
        ELSE IF in_require /\ trimmed # <<>> /\ ~starts_with(trimmed, <<"/", "/">>)
        THEN go_require(Tail(lines), in_require,
               [meta EXCEPT
                  !.dependencies = IF parts # <<>> THEN Append(@, parts[1]) ELSE @,
                  !.requirements = IF Len(parts) >= 2
                                   THEN Append(@, parts[1] \o <<"@">> \o parts[2]) ELSE @])
        ELSE go_require(Tail(lines), in_require, meta)

\* extract_go_mod; the first loop takes the name from the last "module "
\* line, the version from the last "go " line, and a runtime entry from
\* every "go " line.
extract_go_mod(f, root, meta) ==
  LET path == join(root, <<"g", "o", ".", "m", "o", "d">>)
      lines == [i \in DOMAIN f[path].lines |-> trim(f[path].lines[i])]
      modules == SelectSeq(lines, LAMBDA l : starts_with(l, <<"m", "o", "d", "u", "l", "e", " ">>))
      gos == SelectSeq(lines, LAMBDA l : starts_with(l, <<"g", "o", " ">>))
      read == IF ~read_to_string_ok(f, path) THEN meta
              ELSE go_require(f[path].lines, FALSE,
                     [meta EXCEPT
                        !.name = IF modules # <<>>
                                 THEN after_prefix(modules[Len(modules)], <<"m", "o", "d", "u", "l", "e", " ">>) ELSE @,
                        !.version = IF gos # <<>>
                                    THEN Some(after_prefix(gos[Len(gos)], <<"g", "o", " ">>)) ELSE @,
                        !.runtime = @ \o [i \in DOMAIN gos |->
                                            <<"g", "o", " ">> \o after_prefix(gos[i], <<"g", "o", " ">>)]])
  IN  IF exists(f, join(root, <<"m", "a", "i", "n", ".", "g", "o">>)) THEN [read EXCEPT !.entry_point = Some(<<"m", "a", "i", "n", ".", "g", "o">>)]
      ELSE read

\* An array of TOML values, and Value::as_array on the result of a get.
TomlArray(items) == [kind |-> "array", s |-> <<>>, entries |-> items]

as_array(v) == IF v.some /\ v.v.kind = "array" THEN v ELSE None

\* name_only of extract_python_meta: the text before the first of
\* > < = ~ ! ; [ (split gives the whole text when there is none), trimmed.
name_only(dep) ==
  LET marks == {i \in DOMAIN dep : dep[i] \in {">", "<", "=", "~", "!", ";", "["}}
  IN  IF marks = {} THEN trim(dep)
      ELSE trim(SubSeq(dep, 1, (CHOOSE i \in marks : \A j \in marks : i <= j) - 1))

\* A variant of skipped_line that keeps the lines that start with "-".
skipped_line_blank_or_comment(l) == l = <<>> \/ starts_with(l, <<"#">>)

\* The trimmed lines of requirements.txt that the loop passes over.
skipped_line(l) == l = <<>> \/ starts_with(l, <<"#">>) \/ starts_with(l, <<"-">>)

\* extract_python_meta, written as its four steps in turn: each step takes
\* the record the step before it left.  pyproject.toml, then requirements.txt
\* when no dependency was declared, then .python-version when no runtime was
\* declared, then the first entry file that exists.
extract_python_meta(f, root, meta) ==
  LET pyproject == join(root, <<"p", "y", "p", "r", "o", "j", "e", "c", "t", ".", "t", "o", "m", "l">>)
      requirements == join(root, <<"r", "e", "q", "u", "i", "r", "e", "m", "e", "n", "t", "s", ".", "t", "x", "t">>)
      version_file == join(root, <<".", "p", "y", "t", "h", "o", "n", "-", "v", "e", "r", "s", "i", "o", "n">>)
      entry_point(versioned) ==
        LET entries == SelectSeq(<<<<"m", "a", "i", "n", ".", "p", "y">>, <<"a", "p", "p", ".", "p", "y">>, <<"m", "a", "n", "a", "g", "e", ".", "p", "y">>, <<"r", "u", "n", ".", "p", "y">>>>,
                                 LAMBDA entry : exists(f, join(root, entry)))
        IN  IF entries # <<>> THEN [versioned EXCEPT !.entry_point = Some(entries[1])]
            ELSE versioned
      python_version(listed, v) ==
        entry_point(IF listed.runtime = <<>> /\ read_to_string_ok(f, version_file) /\ v # <<>>
                    THEN [listed EXCEPT !.runtime = Append(@, <<"p", "y", "t", "h", "o", "n", " ">> \o v)]
                    ELSE listed)
      requirements_txt(declared, kept) ==
        python_version(IF declared.dependencies = <<>> /\ read_to_string_ok(f, requirements)
                       THEN [declared EXCEPT
                               !.dependencies = @ \o [i \in DOMAIN kept |-> name_only(kept[i])],
                               !.requirements = @ \o kept]
                       ELSE declared,
                       trim(text_of(f[version_file].lines)))
      opt(key, project) == as_str(toml_get(project.v, key))
      strings(deps) ==
        IF deps.some THEN SelectSeq(deps.v.entries, LAMBDA v : as_str(Some(v)).some) ELSE <<>>
      declare(project, name, version, description, requires, listed) ==
        IF ~project.some THEN meta
        ELSE [meta EXCEPT
                !.name = IF name.some THEN name.v ELSE @,
                !.version = IF version.some THEN version ELSE @,
                !.description = IF description.some /\ description.v # <<>>
                                THEN description ELSE @,
                !.runtime = IF requires.some THEN Append(@, <<"p", "y", "t", "h", "o", "n", " ">> \o requires.v) ELSE @,
                !.dependencies = @ \o [i \in DOMAIN listed |-> name_only(listed[i].s)],
                !.requirements = @ \o [i \in DOMAIN listed |-> trim(listed[i].s)]]
      pyproject_toml(project) ==
        requirements_txt(
          declare(project, opt(<<"n", "a", "m", "e">>, project), opt(<<"v", "e", "r", "s", "i", "o", "n">>, project),
                  opt(<<"d", "e", "s", "c", "r", "i", "p", "t", "i", "o", "n">>, project), opt(<<"r", "e", "q", "u", "i", "r", "e", "s", "-", "p", "y", "t", "h", "o", "n">>, project),
                  strings(as_array(toml_get(project.v, <<"d", "e", "p", "e", "n", "d", "e", "n", "c", "i", "e", "s">>)))),
          SelectSeq([i \in DOMAIN f[requirements].lines |-> trim(f[requirements].lines[i])],
                    LAMBDA l : ~skipped_line(l)))
      parsed(doc) ==
        pyproject_toml(IF read_to_string_ok(f, pyproject) /\ doc.ok
                       THEN as_table(toml_get(doc.v, <<"p", "r", "o", "j", "e", "c", "t">>))
                       ELSE None)
  IN  parsed(parse_toml(f, pyproject))

\* str::trim_matches with one character: the text without the run of c at
\* its start and at its end.
trim_matches(s, c) ==
  LET other == {i \in DOMAIN s : s[i] # c}
  IN  IF other = {} THEN <<>>
      ELSE SubSeq(s, CHOOSE i \in other : \A j \in other : i <= j,
                     CHOOSE i \in other : \A j \in other : j <= i)

\* value.trim().trim_matches('"').trim_matches('\'')
unquoted(s) == trim_matches(trim_matches(trim(s), "\""), "'")

\* splitn(2, ':') of a text: the part before its first colon and the part
\* after it; the text alone when it has no colon.
splitn_colon(s) ==
  LET colons == {i \in DOMAIN s : s[i] = ":"}
      at == CHOOSE i \in colons : \A j \in colons : i <= j
  IN  IF colons = {} THEN <<s>>
      ELSE <<SubSeq(s, 1, at - 1), SubSeq(s, at + 1, Len(s))>>

\* A variant of unindented for which a blank line is not one.
unindented_and_inked(line) == line # <<>> /\ line[1] \notin {" ", "\t"}

\* The lines that extract_pubspec_yaml takes for top-level lines.
unindented(line) == ~starts_with(line, <<" ">>) /\ ~starts_with(line, <<"\t">>)

\* The loop of extract_pubspec_yaml from the line it is at; in holds its
\* flags in_deps, in_dev_deps and in_environment.  A line that is not
\* indented sets the flags and may carry a top-level field; an indented line
\* with one colon is an entry of the block the flags name.
RECURSIVE pubspec_lines(_, _, _)
pubspec_lines(lines, in, meta) ==
  IF lines = <<>> THEN meta
  ELSE
    LET top_level(trimmed, desc) ==
          pubspec_lines(Tail(lines),
            [in_deps |-> trimmed = <<"d", "e", "p", "e", "n", "d", "e", "n", "c", "i", "e", "s", ":">>,
             in_dev_deps |-> trimmed = <<"d", "e", "v", "_", "d", "e", "p", "e", "n", "d", "e", "n", "c", "i", "e", "s", ":">>,
             in_environment |-> trimmed = <<"e", "n", "v", "i", "r", "o", "n", "m", "e", "n", "t", ":">>],
            IF starts_with(trimmed, <<"n", "a", "m", "e", ":">>)
            THEN [meta EXCEPT !.name = after_prefix(trimmed, <<"n", "a", "m", "e", ":">>)]
            ELSE IF starts_with(trimmed, <<"v", "e", "r", "s", "i", "o", "n", ":">>)
            THEN [meta EXCEPT !.version = Some(unquoted(after_prefix(trimmed, <<"v", "e", "r", "s", "i", "o", "n", ":">>)))]
            ELSE IF starts_with(trimmed, <<"d", "e", "s", "c", "r", "i", "p", "t", "i", "o", "n", ":">>) /\ desc # <<>>
            THEN [meta EXCEPT !.description = Some(desc)]
            ELSE meta)
        entry(key, val) ==
          IF in.in_environment
          THEN pubspec_lines(Tail(lines), in,
                 IF val # <<>> THEN [meta EXCEPT !.runtime = Append(@, key \o <<" ">> \o val)]
                 ELSE meta)
          ELSE pubspec_lines(Tail(lines), in,
                 IF key = <<>> \/ key = <<"s", "d", "k">> THEN meta
                 ELSE IF in.in_deps
                 THEN [meta EXCEPT
                         !.dependencies = Append(@, key),
                         !.requirements = IF val # <<>> /\ val # <<"^">>
                                          THEN Append(@, key \o <<"@">> \o val) ELSE @]
                 ELSE [meta EXCEPT !.dev_dependencies = Append(@, key)])
        indented(parts) ==
          IF (in.in_environment \/ in.in_deps \/ in.in_dev_deps) /\ Len(parts) = 2
          THEN entry(trim(parts[1]), unquoted(parts[2]))
          ELSE pubspec_lines(Tail(lines), in, meta)
        line(trimmed) ==
          IF unindented(Head(lines))
          THEN top_level(trimmed, unquoted(after_prefix(trimmed, <<"d", "e", "s", "c", "r", "i", "p", "t", "i", "o", "n", ":">>)))
          ELSE indented(splitn_colon(trimmed))
    IN  line(trim(Head(lines)))

extract_pubspec_yaml(f, root, meta) ==
  LET path == join(root, <<"p", "u", "b", "s", "p", "e", "c", ".", "y", "a", "m", "l">>)
      read == IF read_to_string_ok(f, path)
              THEN pubspec_lines(f[path].lines,
                     [in_deps |-> FALSE, in_dev_deps |-> FALSE, in_environment |-> FALSE], meta)
              ELSE meta
  IN  IF exists(f, join(join(root, <<"l", "i", "b">>), <<"m", "a", "i", "n", ".", "d", "a", "r", "t">>))
      THEN [read EXCEPT !.entry_point = Some(<<"l", "i", "b", "/", "m", "a", "i", "n", ".", "d", "a", "r", "t">>)]
      ELSE read

\* str::find: where a text first holds another, if it does.
find(text, pat) ==
  LET at == {i \in 1..(Len(text) - Len(pat) + 1) : SubSeq(text, i, i + Len(pat) - 1) = pat}
  IN  IF at = {} THEN None ELSE Some(CHOOSE i \in at : \A j \in at : i <= j)

contains(text, pat) == find(text, pat).some

\* extract_xml_tag: the trimmed text between the first <tag> and the first
\* </tag> after it.
extract_xml_tag(text, tag) ==
  LET open == <<"<">> \o tag \o <<">">>
      close == <<"<", "/">> \o tag \o <<">">>
      start == find(text, open)
      rest == SubSeq(text, start.v + Len(open), Len(text))
      end == find(rest, close)
  IN  IF start.some /\ end.some THEN Some(trim(SubSeq(rest, 1, end.v - 1))) ELSE None

\* The loop of extract_pom_xml from the line it is at, with in_deps and the
\* accumulator cur = [group, artifact, version].  One turn: the line is
\* trimmed, the flag is moved, the three tags are looked for, and a line with
\* the end tag of a dependency emits and clears the accumulator.
RECURSIVE pom_lines(_, _, _, _)
pom_lines(lines, in_deps, cur, meta) ==
  IF lines = <<>> THEN meta
  ELSE
    LET or_old(found, old) == IF found.some THEN found.v ELSE old
        req(seen) == IF seen.version # <<>>
                     THEN seen.group \o <<":">> \o seen.artifact \o <<":">> \o seen.version
                     ELSE seen.group \o <<":">> \o seen.artifact
        turn(trimmed, inside, seen) ==
          IF ~inside THEN pom_lines(Tail(lines), inside, cur, meta)
          ELSE IF ~contains(trimmed, <<"<", "/", "d", "e", "p", "e", "n", "d", "e", "n", "c", "y", ">">>)
          THEN pom_lines(Tail(lines), inside, seen, meta)
          ELSE pom_lines(Tail(lines), inside,
                 [group |-> <<>>, artifact |-> <<>>, version |-> <<>>],
                 IF seen.artifact # <<>>
                 THEN [meta EXCEPT !.dependencies = Append(@, seen.artifact),
                                   !.requirements = Append(@, req(seen))]
                 ELSE meta)
        line(trimmed) ==
          turn(trimmed,
               IF contains(trimmed, <<"<", "/", "d", "e", "p", "e", "n", "d", "e", "n", "c", "i", "e", "s", ">">>) THEN FALSE
               ELSE IF contains(trimmed, <<"<", "d", "e", "p", "e", "n", "d", "e", "n", "c", "i", "e", "s", ">">>) THEN TRUE
               ELSE in_deps,
               [group |-> or_old(extract_xml_tag(trimmed, <<"g", "r", "o", "u", "p", "I", "d">>), cur.group),
                artifact |-> or_old(extract_xml_tag(trimmed, <<"a", "r", "t", "i", "f", "a", "c", "t", "I", "d">>), cur.artifact),
                version |-> or_old(extract_xml_tag(trimmed, <<"v", "e", "r", "s", "i", "o", "n">>), cur.version)])
    IN  line(trim(Head(lines)))

extract_pom_xml(f, root, meta) ==
  LET path == join(root, <<"p", "o", "m", ".", "x", "m", "l">>)
      or_else(first, second) == IF first.some THEN first ELSE second
      project(artifact, version, description, java) ==
        [meta EXCEPT
           !.name = IF artifact.some THEN artifact.v ELSE @,
           !.version = IF version.some THEN version ELSE @,
           !.description = IF description.some /\ description.v # <<>>
                           THEN description ELSE @,
           !.runtime = IF java.some THEN Append(@, <<"j", "a", "v", "a", " ">> \o java.v) ELSE @]
      read(content) ==
        pom_lines(f[path].lines, FALSE,
          [group |-> <<>>, artifact |-> <<>>, version |-> <<>>],
          project(extract_xml_tag(content, <<"a", "r", "t", "i", "f", "a", "c", "t", "I", "d">>),
                  extract_xml_tag(content, <<"v", "e", "r", "s", "i", "o", "n">>),
                  extract_xml_tag(content, <<"d", "e", "s", "c", "r", "i", "p", "t", "i", "o", "n">>),
                  or_else(extract_xml_tag(content, <<"j", "a", "v", "a", ".", "v", "e", "r", "s", "i", "o", "n">>),
                          extract_xml_tag(content, <<"m", "a", "v", "e", "n", ".", "c", "o", "m", "p", "i", "l", "e", "r", ".", "s", "o", "u", "r", "c", "e">>))))
  IN  IF ~read_to_string_ok(f, path) THEN meta ELSE read(text_of(f[path].lines))

\* extract_gradle_meta: the first of the two settings files that can be
\* read is the only one looked at; every line that starts with
\* rootProject.name and has a name after its first "=" sets the name.
extract_gradle_meta(f, root, meta) ==
  LET files == SelectSeq(<<<<"s", "e", "t", "t", "i", "n", "g", "s", ".", "g", "r", "a", "d", "l", "e", ".", "k", "t", "s">>, <<"s", "e", "t", "t", "i", "n", "g", "s", ".", "g", "r", "a", "d", "l", "e">>>>,
                         LAMBDA name : read_to_string_ok(f, join(root, name)))
      lines == f[join(root, files[1])].lines
      named(line) ==
        LET eqs == {i \in DOMAIN line : line[i] = "="}
            first == CHOOSE i \in eqs : \A j \in eqs : i <= j
            after == {i \in eqs : i > first}
            last == IF after = {} THEN Len(line)
                    ELSE (CHOOSE i \in after : \A j \in after : i <= j) - 1
        IN  IF eqs = {} THEN <<>> ELSE unquoted(SubSeq(line, first + 1, last))
      names == SelectSeq([i \in DOMAIN lines |-> trim(lines[i])],
                         LAMBDA l : starts_with(l, <<"r", "o", "o", "t", "P", "r", "o", "j", "e", "c", "t", ".", "n", "a", "m", "e">>) /\ named(l) # <<>>)
  IN  IF files # <<>> /\ names # <<>> THEN [meta EXCEPT !.name = named(names[Len(names)])]
      ELSE meta

\* The record extract_metadata starts from.
default_metadata(root, project_type) ==
  [name |-> IF root = <<>> THEN <<"p", "r", "o", "j", "e", "c", "t">> ELSE file_name(root),
   project_type |-> project_type,
   version |-> None, description |-> None,
   dependencies |-> <<>>, dev_dependencies |-> <<>>,
   entry_point |-> None, runtime |-> <<>>, requirements |-> <<>>]

\* A variant of extract_metadata that reads Cargo.toml for every label that
\* has no reader of its own.
extract_metadata_reading_cargo(f, root, project_type) ==
  extract_cargo_toml(f, root, default_metadata(root, project_type))

\* extract_metadata: the match on the label; a label without an arm keeps
\* the record it starts from.
extract_metadata(f, root, project_type) ==
  LET meta == default_metadata(root, project_type)
  IN  IF project_type \in {"Node.js", "Next.js", "Vite", "Nuxt.js"}
      THEN extract_package_json(f, root, meta)
      ELSE IF project_type = "Python" THEN extract_python_meta(f, root, meta)
      ELSE IF project_type = "Rust" THEN extract_cargo_toml(f, root, meta)
      ELSE IF project_type = "Go" THEN extract_go_mod(f, root, meta)
      ELSE IF project_type = "Flutter / Dart" THEN extract_pubspec_yaml(f, root, meta)
      ELSE IF project_type = "Java / Maven" THEN extract_pom_xml(f, root, meta)
      ELSE IF project_type \in {"Android / Gradle", "Gradle"}
      THEN extract_gradle_meta(f, root, meta)
      ELSE meta

\* format_tokens: the count with its unit; the decimal places of the K and M
\* forms are not written out.
format_tokens(tokens) ==
  IF tokens >= 1000000 THEN TokN("{:.1}M", tokens)
  ELSE IF tokens >= 1000 THEN TokN("{:.1}K", tokens)
  ELSE TokN("{:.0}", tokens)

OptLine(w, opt) == IF opt.some THEN <<TokP(w, <<opt.v>>)>> ELSE <<>>

ListLine(w, list) == IF list = <<>> THEN <<>> ELSE <<TokP(w, list)>>

build_plain_header(meta, file_count, estimated_tokens) ==
  <<TokP("# Project: {}\n", <<meta.name>>), Tok("# Type: "), Tok(meta.project_type)>>
  \o OptLine("# Version: {}\n", meta.version)
  \o OptLine("# Description: {}\n", meta.description)
  \o OptLine("# Entry Point: {}\n", meta.entry_point)
  \o ListLine("# Runtime: {}\n", meta.runtime)
  \o ListLine("# Dependencies: {}\n", meta.dependencies)
  \o ListLine("# Dev Dependencies: {}\n", meta.dev_dependencies)
  \o ListLine("# Requirements:\n#   {}\n", meta.requirements)
  \o <<TokN("# Files: {}\n", file_count), Tok("# Estimated Tokens: "),
       format_tokens(estimated_tokens),
       Tok("============================================================\n\n")>>

build_markdown_header(meta, file_count, estimated_tokens) ==
  <<TokP("# {}\n\n", <<meta.name>>), Tok("- **Type:** "), Tok(meta.project_type)>>
  \o OptLine("- **Version:** {}\n", meta.version)
  \o OptLine("- **Description:** {}\n", meta.description)
  \o OptLine("- **Entry Point:** '{}'\n", meta.entry_point)
  \o ListLine("- **Runtime:** {}\n", meta.runtime)
  \o ListLine("- **Dependencies ({}):** {}\n", meta.dependencies)
  \o ListLine("- **Dev Dependencies ({}):** {}\n", meta.dev_dependencies)
  \o ListLine("- **Requirements:**\n  - '{}'\n", meta.requirements)
  \o <<TokN("- **Files:** {}\n", file_count), Tok("- **Estimated Tokens:** "),
       format_tokens(estimated_tokens), Tok("\n---\n\n")>>

\* The type label is written through xml_escape; no label of this model holds
\* one of the characters it replaces.
build_xml_header(meta, file_count, estimated_tokens) ==
  <<Tok("<?xml version=\"1.0\" encoding=\"UTF-8\"?>\n"), Tok("<codepack>\n"),
    Tok("<metadata>\n"), TokP("  <name>{}</name>\n", <<xml_escape(meta.name)>>),
    Tok("  <type>"), Tok(meta.project_type), Tok("</type>\n")>>
  \o (IF meta.version.some
      THEN <<TokP("  <version>{}</version>\n", <<xml_escape(meta.version.v)>>)>> ELSE <<>>)
  \o (IF meta.description.some
      THEN <<TokP("  <description>{}</description>\n", <<xml_escape(meta.description.v)>>)>>
      ELSE <<>>)
  \o (IF meta.entry_point.some
      THEN <<TokP("  <entry_point>{}</entry_point>\n", <<xml_escape(meta.entry_point.v)>>)>>
      ELSE <<>>)
  \o (IF meta.runtime = <<>> THEN <<>>
      ELSE <<Tok("  <runtime>\n"),
             TokP("    <env>{}</env>\n", [i \in DOMAIN meta.runtime |-> xml_escape(meta.runtime[i])]),
             Tok("  </runtime>\n")>>)
  \o (IF meta.dependencies = <<>> THEN <<>>
      ELSE <<Tok("  <dependencies>\n"),
             TokP("    <dep>{}</dep>\n",
                  [i \in DOMAIN meta.dependencies |-> xml_escape(meta.dependencies[i])]),
             Tok("  </dependencies>\n")>>)
  \o <<TokN("  <file_count>{}</file_count>\n", file_count), Tok("  <estimated_tokens>"),
       format_tokens(estimated_tokens), Tok("</estimated_tokens>\n"),
       Tok("</metadata>\n"), Tok("<files>\n\n")>>

build_header(meta, file_count, estimated_tokens, format) ==
  IF format = "Plain" THEN build_plain_header(meta, file_count, estimated_tokens)
  ELSE IF format = "Markdown" THEN build_markdown_header(meta, file_count, estimated_tokens)
  ELSE build_xml_header(meta, file_count, estimated_tokens)

\* The nested BTreeMap of build_tree_overview, as the set of its nodes: every
\* non-empty prefix of a relative path; a map is read in the order of its keys.
\* The connectors are written "|-- ", "\-- " and "|   " for the box-drawing
\* characters of the source.
RECURSIVE render_tree_node(_, _, _, _)
render_tree_node(nodes, node, prefix, is_root) ==
  LET entries == sort_by_file_name({n \in nodes : Len(n) = Len(node) + 1 /\ parent(n) = node})
      count == Len(entries)
  IN  Flatten([i \in 1..count |->
        LET child == entries[i]
            name == file_name(child)
            is_last == (i = count)
            has_children == \E n \in nodes : Len(n) = Len(child) + 1 /\ parent(n) = child
            connector == IF is_last THEN "\\-- " ELSE "|-- "
        IN  IF is_root
            THEN IF has_children
                 THEN <<TokP("{}/", <<name>>)>> \o render_tree_node(nodes, child, "  ", FALSE)
                 ELSE <<TokP("{}", <<name>>)>>
            ELSE IF has_children
                 THEN <<TokP(prefix \o connector \o "{}/", <<name>>)>>
                      \o render_tree_node(nodes, child,
                           prefix \o (IF is_last THEN "    " ELSE "|   "), FALSE)
                 ELSE <<TokP(prefix \o connector \o "{}", <<name>>)>>])

build_tree_overview(relative_paths, format) ==
  IF relative_paths = <<>> THEN <<>>
  ELSE
    LET nodes == UNION {{SubSeq(relative_paths[i], 1, k) : k \in 1..Len(relative_paths[i])} :
                        i \in DOMAIN relative_paths}
        lines == render_tree_node(nodes, <<>>, "", TRUE)
    IN  IF format = "Plain"
        THEN <<Tok("# File Tree:\n")>>
             \o [i \in DOMAIN lines |-> [lines[i] EXCEPT !.w = "#   " \o @ \o "\n"]]
             \o <<Tok("#\n\n")>>
        ELSE IF format = "Markdown"
        THEN <<Tok("## File Tree\n\n'''\n")>>
             \o [i \in DOMAIN lines |-> [lines[i] EXCEPT !.w = @ \o "\n"]]
             \o <<Tok("'''\n\n")>>
        ELSE <<Tok("<file_tree>\n"), Tok("<![CDATA[\n")>>
             \o [i \in DOMAIN lines |-> [lines[i] EXCEPT !.w = @ \o "\n"]]
             \o <<Tok("]]>\n"), Tok("</file_tree>\n\n")>>

\* A variant of build_footer that leaves the files element open.
build_footer_unclosed(format) ==
  IF format = "Xml" THEN <<Tok("</codepack>\n")>> ELSE <<>>

build_footer(format) ==
  IF format = "Xml" THEN <<Tok("</files>\n"), Tok("</codepack>\n")>> ELSE <<>>

\* The relative paths handed to the tree overview: the paths below the root
\* (filter_map over strip_prefix(root).ok()), each run once.
overview_paths(paths, root) ==
  LET under == SelectSeq(paths, LAMBDA r : path_starts_with(r.path, root))
  IN  [i \in DOMAIN under |-> SubSeq(under[i].path, Len(root) + 1, Len(under[i].path))]

\* max_file_bytes.unwrap_or(DEFAULT_MAX_FILE_BYTES)
limit_of(max_file_bytes) ==
  IF max_file_bytes.some THEN max_file_bytes.v ELSE DEFAULT_MAX_FILE_BYTES

\* build_pack_content_with_limit; body is the local of that name, kept beside
\* the PackResult fields.
build_pack_content_with_limit(f, paths, project_path, project_type, format, max_file_bytes) ==
  LET meta == extract_metadata(f, project_path, project_type)
      limit == limit_of(max_file_bytes)
      st == pack_loop(f, project_path, format, limit, paths,
                      [body |-> <<>>, file_count |-> 0, total_bytes |-> 0,
                       skipped_files |-> <<>>])
      estimated_tokens == encode_ordinary_len(st.body)
      header == build_header(meta, st.file_count, estimated_tokens, format)
      tree_overview == build_tree_overview(overview_paths(paths, project_path), format)
      footer == build_footer(format)
  IN  [content |-> Rep(header, 1) \o Rep(tree_overview, IF tree_overview = <<>> THEN 0 ELSE 1)
                   \o st.body \o Rep(footer, IF footer = <<>> THEN 0 ELSE 1),
       file_count |-> st.file_count,
       total_bytes |-> st.total_bytes,
       estimated_tokens |-> estimated_tokens,
       skipped_files |-> st.skipped_files,
       body |-> st.body]

\* The Git Diff section: diffs is a map from a path text to [nl]: a diff text
\* and whether it ends with a newline; order is the order in which the
\* HashMap hands out its keys.
diff_section(format, diffs, order) ==
  LET nl(k) == IF diffs[k].nl THEN <<>> ELSE <<Tok("\n")>>
  IN  IF format = "Plain"
      THEN <<Tok("# ===== Git Diff (Working Changes) =====\n\n")>>
           \o Flatten([i \in DOMAIN order |->
                <<TokP("# --- {} ---\n", order[i]), TokP("diff", order[i])>>
                \o nl(order[i]) \o <<Tok("\n")>>])
      ELSE IF format = "Markdown"
      THEN <<Tok("## Git Diff (Working Changes)\n\n")>>
           \o Flatten([i \in DOMAIN order |->
                <<TokP("### {}\n\n'''diff\n", order[i]), TokP("diff", order[i])>>
                \o nl(order[i]) \o <<Tok("'''\n\n")>>])
      ELSE <<Tok("<diffs>\n")>>
           \o Flatten([i \in DOMAIN order |->
                <<TokP("<diff path=\"{}\">\n", xml_escape_path(order[i])), Tok("<![CDATA[\n"),
                  TokP("diff", order[i])>>
                \o nl(order[i]) \o <<Tok("]]>\n"), Tok("</diff>\n")>>])
           \o <<Tok("</diffs>\n\n")>>

\* The Review Instructions section: instr is [empty, nl].
instruction_section(format, instr) ==
  LET nl == IF instr.nl THEN <<>> ELSE <<Tok("\n")>>
  IN  IF format = "Plain"
      THEN <<Tok("# ===== Review Instructions =====\n"), Tok("instruction")>> \o nl
           \o <<Tok("\n")>>
      ELSE IF format = "Markdown"
      THEN <<Tok("## Review Instructions\n\n"), Tok("instruction")>> \o nl \o <<Tok("\n")>>
      ELSE <<Tok("<instruction>\n"), Tok("<![CDATA[\n"), Tok("instruction")>> \o nl
           \o <<Tok("]]>\n"), Tok("</instruction>\n\n")>>

\* A variant of build_pack_content_extended that renders the instruction
\* section for every instruction that is given, the empty one included.
build_pack_content_extended_any_instruction(f, paths, project_path, project_type, format, max_file_bytes, diffs, order, instruction) ==
  LET result == build_pack_content_with_limit(f, paths, project_path, project_type,
                                              format, max_file_bytes)
      extra == (IF diffs.some /\ DOMAIN diffs.v # {}
                THEN diff_section(format, diffs.v, order) ELSE <<>>)
               \o (IF instruction.some
                   THEN instruction_section(format, instruction.v) ELSE <<>>)
      content == result.content \o Rep(extra, 1)
  IN  IF extra # <<>>
      THEN [result EXCEPT !.content = content,
                          !.estimated_tokens = encode_ordinary_len(content)]
      ELSE result

\* A variant of build_pack_content_extended that keeps the estimate of the
\* plain pack when it appends a section.
build_pack_content_extended_keeping_estimate(f, paths, project_path, project_type, format, max_file_bytes, diffs, order, instruction) ==
  LET result == build_pack_content_with_limit(f, paths, project_path, project_type,
                                              format, max_file_bytes)
      extra == (IF diffs.some /\ DOMAIN diffs.v # {}
                THEN diff_section(format, diffs.v, order) ELSE <<>>)
               \o (IF instruction.some /\ ~instruction.v.empty
                   THEN instruction_section(format, instruction.v) ELSE <<>>)
  IN  IF extra # <<>>
      THEN [result EXCEPT !.content = result.content \o Rep(extra, 1)]
      ELSE result

\* build_pack_content_extended: the pack of build_pack_content_with_limit,
\* then the sections appended to its content and the estimate taken anew.
build_pack_content_extended(f, paths, project_path, project_type, format, max_file_bytes, diffs, order, instruction) ==
  LET extra == (IF diffs.some /\ DOMAIN diffs.v # {}
                THEN diff_section(format, diffs.v, order) ELSE <<>>)
               \o (IF instruction.some /\ ~instruction.v.empty
                   THEN instruction_section(format, instruction.v) ELSE <<>>)
      appended(result, content) ==
        IF extra # <<>>
        THEN [result EXCEPT !.content = content,
                            !.estimated_tokens = encode_ordinary_len(content)]
        ELSE result
      extended(result) == appended(result, result.content \o Rep(extra, 1))
  IN  extended(build_pack_content_with_limit(f, paths, project_path, project_type,
                                             format, max_file_bytes))

\* ------------------------------------------------------------------------
\* State
\* ------------------------------------------------------------------------

VARIABLES
  fs,            \* the file system
  pluginStore,   \* the plugin definitions load_plugins returns, in load order
  ignored,       \* the names the working tree's ignore rules match
  detected,      \* the label a detection returned, or None
  scanReq,       \* the arguments of the scan command that ran, or None
  scanResult,    \* what it returned: [ok, v] with a ScanResult or an error text
  effects,       \* what the scan did, in program order
  events,        \* the scan-progress events emitted, in order
  packReq,       \* the arguments of the pack call that ran, or None
  packResult,    \* the PackResult it returned, or None
  prevResult,    \* the PackResult of the call before it, or None
  task,          \* the blocking task of scan_directory_async: its position and locals, or None
  mutex,         \* the caller that holds the lock of WatcherState.watcher, or None
  watcher,       \* the Option in WatcherState.watcher
  alive,         \* the watchers that were created and not dropped
  callers,       \* for each caller of the watcher commands, where it is in its call
  config,        \* codepack_config.json: the entry of each project it has
  clock,         \* what chrono_now returns
  prompts,       \* codepack_review_prompts.json: the prompts in it, or None without the file
  lastCall       \* the command that returned last, with its arguments and result, or None

\* The state of the commands around the scanner and the packer.
shell == <<task, mutex, watcher, alive, callers, config, clock, prompts, lastCall>>

\* The state of the scanner and the packer.
core == <<fs, pluginStore, ignored, detected, scanReq, scanResult, effects, events,
          packReq, packResult, prevResult>>

vars == <<fs, pluginStore, ignored, detected, scanReq, scanResult, effects, events,
          packReq, packResult, prevResult, shell>>

\* Bounds of the model
MaxMarkers == 3

MaxEntries == 3

MaxPaths == 2

\* The project root of every scenario, and a path where nothing is.
ProjRoot == <<<<"p", "r", "o", "j">>>>

NoSuchRoot == <<<<"n", "o", "w", "h", "e", "r", "e">>>>

Plugin(name, detect_files, detect_dirs, exclude_dirs, source_extensions) ==
  [name |-> name, detect_files |-> detect_files, detect_dirs |-> detect_dirs,
   exclude_dirs |-> exclude_dirs, source_extensions |-> source_extensions]

Idle ==
  /\ detected = None
  /\ scanReq = None /\ scanResult = None /\ effects = <<>> /\ events = <<>>
  /\ packReq = None /\ packResult = None /\ prevResult = None
  /\ task = None
  /\ mutex = None /\ watcher = None /\ alive = {} /\ callers = <<>>
  /\ config = <<>> /\ clock = 0
  /\ prompts = None
  /\ lastCall = None

\* ------------------------------------------------------------------------
\* Detection: marker entries appear in the root, then the type is detected.
\* ------------------------------------------------------------------------

MarkerFiles ==
  {<<"b", "u", "i", "l", "d", ".", "g", "r", "a", "d", "l", "e", ".", "k", "t", "s">>, <<"b", "u", "i", "l", "d", ".", "g", "r", "a", "d", "l", "e">>, <<"A", "n", "d", "r", "o", "i", "d", "M", "a", "n", "i", "f", "e", "s", "t", ".", "x", "m", "l">>, <<"p", "u", "b", "s", "p", "e", "c", ".", "y", "a", "m", "l">>,
   <<"C", "a", "r", "g", "o", ".", "t", "o", "m", "l">>, <<"g", "o", ".", "m", "o", "d">>, <<"p", "o", "m", ".", "x", "m", "l">>, <<"P", "a", "c", "k", "a", "g", "e", ".", "s", "w", "i", "f", "t">>, <<"C", "M", "a", "k", "e", "L", "i", "s", "t", "s", ".", "t", "x", "t">>,
   <<"M", "a", "k", "e", "f", "i", "l", "e">>, <<"m", "a", "k", "e", "f", "i", "l", "e">>, <<"m", "a", "i", "n", ".", "c">>, <<"u", "t", "i", "l", ".", "h">>, <<"G", "e", "m", "f", "i", "l", "e">>, <<"d", "o", "c", "k", "e", "r", "-", "c", "o", "m", "p", "o", "s", "e", ".", "y", "m", "l">>,
   <<"d", "o", "c", "k", "e", "r", "-", "c", "o", "m", "p", "o", "s", "e", ".", "y", "a", "m", "l">>, <<"n", "e", "x", "t", ".", "c", "o", "n", "f", "i", "g", ".", "j", "s">>, <<"n", "u", "x", "t", ".", "c", "o", "n", "f", "i", "g", ".", "t", "s">>, <<"v", "i", "t", "e", ".", "c", "o", "n", "f", "i", "g", ".", "t", "s">>,
   <<"p", "y", "p", "r", "o", "j", "e", "c", "t", ".", "t", "o", "m", "l">>, <<"r", "e", "q", "u", "i", "r", "e", "m", "e", "n", "t", "s", ".", "t", "x", "t">>, <<"s", "e", "t", "u", "p", ".", "p", "y">>, <<"p", "a", "c", "k", "a", "g", "e", ".", "j", "s", "o", "n">>,
   <<"s", "p", "e", "c", "i", "a", "l", ".", "c", "o", "n", "f", "i", "g">>}

MarkerDirs == {<<"a", "p", "p">>, <<"c", "u", "s", "t", "o", "m", "_", "d", "i", "r">>}

SpecialPlugin == Plugin("Special", <<<<"s", "p", "e", "c", "i", "a", "l", ".", "c", "o", "n", "f", "i", "g">>>>, <<>>, <<<<"c", "u", "s", "t", "o", "m", "_", "o", "u", "t">>>>, <<<<"x", "y", "z">>>>)

CustomPlugin == Plugin("Custom", <<>>, <<<<"c", "u", "s", "t", "o", "m", "_", "d", "i", "r">>>>, <<>>, <<>>)

EmptyPlugin == Plugin("Empty", <<>>, <<>>, <<>>, <<>>)

BothPlugin == Plugin("Both", <<<<"C", "a", "r", "g", "o", ".", "t", "o", "m", "l">>, <<"p", "a", "c", "k", "a", "g", "e", ".", "j", "s", "o", "n">>>>, <<<<"a", "p", "p">>>>, <<>>, <<>>)

DetectPluginLists ==
  {<<>>, <<SpecialPlugin>>, <<EmptyPlugin, SpecialPlugin>>, <<CustomPlugin, SpecialPlugin>>,
   <<SpecialPlugin, CustomPlugin>>, <<EmptyPlugin>>, <<BothPlugin, CustomPlugin>>}

InitDetect ==
  /\ fs = (ProjRoot :> DirEntry)
  /\ pluginStore \in DetectPluginLists
  /\ ignored = {}
  /\ Idle

CreateMarker ==
  /\ detected = None
  /\ Cardinality(DOMAIN fs) - 1 < MaxMarkers
  /\ \/ \E name \in MarkerFiles :
          /\ join(ProjRoot, name) \notin DOMAIN fs
          /\ fs' = fs @@ (join(ProjRoot, name) :> FileEntry(1, TRUE, TRUE))
     \/ \E name \in MarkerDirs :
          /\ join(ProjRoot, name) \notin DOMAIN fs
          /\ fs' = fs @@ (join(ProjRoot, name) :> DirEntry)
  /\ UNCHANGED <<shell, pluginStore, ignored, detected, scanReq, scanResult, effects, events,
                 packReq, packResult, prevResult>>

\* detect_project_type_with_plugins(root, &load_plugins())
DetectProjectType ==
  /\ detected = None
  /\ \E listing \in Listings(fs, ProjRoot) :
       detected' = Some(detect_project_type_with_plugins(fs, ProjRoot, pluginStore, listing))
  /\ UNCHANGED <<shell, fs, pluginStore, ignored, scanReq, scanResult, effects, events,
                 packReq, packResult, prevResult>>

NextDetect == CreateMarker \/ DetectProjectType

SpecDetect == InitDetect /\ [][NextDetect]_vars

\* ------------------------------------------------------------------------
\* Scanning: directories and files appear below the root, a scan command
\* runs, and the files of the tree it returned are packed.
\* ------------------------------------------------------------------------

ScanDirNames == {<<"s", "r", "c">>, <<"N", "o", "d", "e", "_", "M", "o", "d", "u", "l", "e", "s">>, <<".", "g", "i", "t", "h", "u", "b">>}

\* The files that can appear, each name with its content: a short text, a
\* text longer than DEFAULT_MAX_FILE_BYTES, bytes that are not UTF-8.
ScanFiles ==
  {[name |-> <<"m", "a", "i", "n", ".", "r", "s">>, entry |-> FileEntry(10, TRUE, TRUE)],
   [name |-> <<"D", "o", "c", "k", "e", "r", "f", "i", "l", "e">>, entry |-> FileEntry(DEFAULT_MAX_FILE_BYTES + 1, TRUE, TRUE)],
   [name |-> <<"l", "a", "t", "i", "n", "1", ".", "t", "x", "t">>, entry |-> FileEntry(20, FALSE, FALSE)],
   [name |-> <<"N", "o", "t", "e", "s", ".", "X", "Y", "Z">>, entry |-> FileEntry(5, TRUE, TRUE)],
   [name |-> <<".", "h", "i", "d", "d", "e", "n", ".", "r", "s">>, entry |-> FileEntry(7, TRUE, TRUE)]}

XyzPlugin == Plugin("Xyz", <<<<"x", "y", "z", ".", "c", "o", "n", "f", "i", "g">>>>, <<>>, <<<<"S", "R", "C">>>>, <<<<"x", "y", "z">>>>)

InitScan ==
  /\ fs = (ProjRoot :> DirEntry)
  /\ \/ pluginStore = <<>> /\ ignored \in {{}, {<<"m", "a", "i", "n", ".", "r", "s">>, <<"s", "r", "c">>}}
     \/ pluginStore = <<XyzPlugin>> /\ ignored = {}
  /\ Idle

\* Directories nest two deep below the root.
CreateDir ==
  /\ scanReq = None
  /\ Cardinality(DOMAIN fs) - 1 < MaxEntries
  /\ \E dir \in DOMAIN fs, name \in ScanDirNames :
       /\ fs[dir].kind = "dir"
       /\ Len(dir) <= 2
       /\ join(dir, name) \notin DOMAIN fs
       /\ fs' = fs @@ (join(dir, name) :> DirEntry)
  /\ UNCHANGED <<shell, pluginStore, ignored, detected, scanReq, scanResult, effects, events,
                 packReq, packResult, prevResult>>

CreateFile ==
  /\ scanReq = None
  /\ Cardinality(DOMAIN fs) - 1 < MaxEntries
  /\ \E dir \in DOMAIN fs, file \in ScanFiles :
       /\ fs[dir].kind = "dir"
       /\ join(dir, file.name) \notin DOMAIN fs
       /\ fs' = fs @@ (join(dir, file.name) :> file.entry)
  /\ UNCHANGED <<shell, pluginStore, ignored, detected, scanReq, scanResult, effects, events,
                 packReq, packResult, prevResult>>

ScanProgress(phase, files_found) == [phase |-> phase, files_found |-> files_found]

\* A variant of the root check that only asks whether the path is there.
root_absent(f, path) == ~exists(f, path)

\* The check both scan commands start with: !root.exists() || !root.is_dir()
root_unusable(f, path) == ~exists(f, path) \/ ~is_dir(f, path)

\* What scan_directory and the closure of scan_directory_async do with a
\* root: [result, effects, events].  effects lists the calls made, events the
\* progress events of the async command.
scan(f, plugins_on_disk, ignore_names, path, custom_excludes, listing) ==
  IF root_unusable(f, path)
  THEN [result |-> [ok |-> FALSE, v |-> "Path does not exist or is not a directory"],
        effects |-> <<"check">>,
        events |-> <<>>]
  ELSE
    LET plugins == plugins_on_disk
        project_type == detect_project_type_with_plugins(f, path, plugins, listing)
        extra_excludes == get_plugin_excluded_dirs(plugins)
                          \o (IF custom_excludes.some THEN custom_excludes.v ELSE <<>>)
        extra_extensions == get_plugin_source_extensions(plugins)
        tree == build_file_tree(f, path, extra_excludes, extra_extensions, ignore_names)
        total_files == count_files(tree)
        metadata == extract_metadata(f, path, project_type)
    IN  [result |-> [ok |-> TRUE,
                     v |-> [project_type |-> project_type, tree |-> tree,
                            total_files |-> total_files, metadata |-> metadata]],
         effects |-> <<"check", "load_plugins", "detect_project_type", "build_file_tree",
                       "count_files", "extract_metadata">>,
         events |-> <<ScanProgress("detecting", 0), ScanProgress("scanning", 0),
                      ScanProgress("metadata", total_files),
                      ScanProgress("done", total_files)>>]

\* The roots a scan is asked for: the project root, a path where nothing is,
\* a file in the project root.
ScanRoots == {ProjRoot, NoSuchRoot} \cup {p \in ChildPaths(fs, ProjRoot) : fs[p].kind = "file"}

CustomExcludes == {None, Some(<<<<"B", "u", "i", "l", "d">>, <<"S", "r", "c">>>>)}

ScanDirectory ==
  /\ scanReq = None
  /\ \E path \in ScanRoots, custom_excludes \in CustomExcludes :
       \E listing \in Listings(fs, path) :
         LET s == scan(fs, pluginStore, ignored, path, custom_excludes, listing)
         IN  /\ scanReq' = Some([path |-> path, custom_excludes |-> custom_excludes,
                                 async |-> FALSE])
             /\ scanResult' = Some(s.result)
             /\ effects' = s.effects
             /\ events' = <<>>
  /\ UNCHANGED <<shell, fs, pluginStore, ignored, detected, packReq, packResult, prevResult>>

ScanDirectoryAsync ==
  /\ scanReq = None
  /\ \E path \in ScanRoots, custom_excludes \in CustomExcludes :
       \E listing \in Listings(fs, path) :
         LET s == scan(fs, pluginStore, ignored, path, custom_excludes, listing)
         IN  /\ scanReq' = Some([path |-> path, custom_excludes |-> custom_excludes,
                                 async |-> TRUE])
             /\ scanResult' = Some(s.result)
             /\ effects' = s.effects
             /\ events' = s.events
  /\ UNCHANGED <<shell, fs, pluginStore, ignored, detected, packReq, packResult, prevResult>>

Run(path, times) == [path |-> path, times |-> times]

\* The arguments of a pack command; extended tells pack_files_extended from
\* pack_files, which has no include_diff and no instruction.
PackRequest(extended, paths, project_path, project_type, format, max_file_bytes, include_diff, instruction) ==
  [extended |-> extended, paths |-> paths, project_path |-> project_path,
   project_type |-> project_type, format |-> format, max_file_bytes |-> max_file_bytes,
   include_diff |-> include_diff, instruction |-> instruction]

\* format.unwrap_or_default()
format_of(format) == IF format.some THEN format.v ELSE "Plain"

\* pack_files
pack_files(f, req) ==
  build_pack_content_with_limit(f, req.paths, req.project_path, req.project_type,
                                format_of(req.format), req.max_file_bytes)

\* pack_files for every file of the scanned tree, in tree order, with the
\* scan's root and label and the defaults for the rest.
PackScanned ==
  /\ scanResult.some /\ scanResult.v.ok
  /\ packReq = None
  /\ LET leaves == leaf_paths(scanResult.v.v.tree)
         req == PackRequest(FALSE, [i \in DOMAIN leaves |-> Run(leaves[i], 1)],
                            scanReq.v.path, scanResult.v.v.project_type, None, None,
                            None, None)
     IN  /\ packReq' = Some(req)
         /\ packResult' = Some(pack_files(fs, req))
  /\ UNCHANGED <<shell, fs, pluginStore, ignored, detected, scanReq, scanResult, effects, events,
                 prevResult>>

NextScan == CreateDir \/ CreateFile \/ ScanDirectory \/ ScanDirectoryAsync \/ PackScanned

SpecScan == InitScan /\ [][NextScan]_vars

\* ------------------------------------------------------------------------
\* Packing: the pack commands run over a fixed project directory, and a
\* command is run a second time with the arguments of the first.
\* ------------------------------------------------------------------------

SmallFile == join(ProjRoot, <<"s", "m", "a", "l", "l", ".", "r", "s">>)

EdgeFile == join(ProjRoot, <<"e", "d", "g", "e", ".", "r", "s">>)

BigFile == join(ProjRoot, <<"b", "i", "g", ".", "r", "s">>)

MaxFile == join(ProjRoot, <<"m", "a", "x", ".", "t", "x", "t">>)

OverFile == join(ProjRoot, <<"o", "v", "e", "r", ".", "t", "x", "t">>)

BinFile == join(ProjRoot, <<"b", "i", "n", ".", "d", "a", "t">>)

SubDir == join(ProjRoot, <<"s", "u", "b">>)

GoneFile == join(ProjRoot, <<"g", "o", "n", "e", ".", "r", "s">>)

OutsideFile == <<<<"o", "t", "h", "e", "r">>, <<"e", "x", "t", ".", "r", "s">>>>

\* A 10-byte, a 100-byte and a 200-byte text, a text of exactly
\* DEFAULT_MAX_FILE_BYTES and one a byte longer, a file of 150 bytes that is
\* not UTF-8, a directory, and a text outside the project; GoneFile is not there.
PackFs ==
  (ProjRoot :> DirEntry) @@ (<<<<"o", "t", "h", "e", "r">>>> :> DirEntry) @@ (SubDir :> DirEntry)
  @@ (SmallFile :> FileEntry(10, TRUE, TRUE))
  @@ (EdgeFile :> FileEntry(100, TRUE, FALSE))
  @@ (BigFile :> FileEntry(200, TRUE, TRUE))
  @@ (MaxFile :> FileEntry(DEFAULT_MAX_FILE_BYTES, TRUE, TRUE))
  @@ (OverFile :> FileEntry(DEFAULT_MAX_FILE_BYTES + 1, TRUE, FALSE))
  @@ (BinFile :> FileEntry(150, FALSE, FALSE))
  @@ (OutsideFile :> FileEntry(15, TRUE, TRUE))

\* The files of the working tree that differ from HEAD, with whether the
\* diff text ends with a newline.
WorkingChanges == (SmallFile :> [nl |-> TRUE]) @@ (EdgeFile :> [nl |-> FALSE])

PackPaths == {SmallFile, EdgeFile, BigFile, MaxFile, OverFile, BinFile, SubDir, GoneFile,
              OutsideFile}

\* One occurrence of any path, or SmallFile MAX_FILE_COUNT times in a row.
PackRuns == {Run(p, 1) : p \in PackPaths} \cup {Run(SmallFile, MAX_FILE_COUNT)}

RECURSIVE SeqsUpTo(_, _)
SeqsUpTo(S, n) ==
  IF n = 0 THEN {<<>>}
  ELSE LET shorter == SeqsUpTo(S, n - 1)
       IN  shorter \cup {Append(s, x) : s \in {t \in shorter : Len(t) = n - 1}, x \in S}

PathLists == SeqsUpTo(PackRuns, MaxPaths)

Formats == {None, Some("Markdown"), Some("Xml")}

Limits == {None, Some(100)}

InitPack ==
  /\ fs = PackFs
  /\ pluginStore = <<>>
  /\ ignored = {}
  /\ Idle

\* git::get_diffs_for_files: the diff of every path of the list that has one,
\* keyed by the path relative to the repository root.
get_diffs_for_files(changes, project_path, file_paths) ==
  LET with_diff == {file_paths[i].path : i \in DOMAIN file_paths} \cap DOMAIN changes
  IN  [rel \in {relative_of(p, project_path) : p \in with_diff} |->
         changes[CHOOSE p \in with_diff : relative_of(p, project_path) = rel]]

\* The diffs argument that pack_files_extended hands on.
diffs_of(changes, req) ==
  IF req.include_diff.some /\ req.include_diff.v
  THEN LET diff_map == get_diffs_for_files(changes, req.project_path, req.paths)
       IN  IF DOMAIN diff_map = {} THEN None ELSE Some(diff_map)
  ELSE None

\* pack_files_extended; order is the iteration order of the diff map built
\* for this call.
pack_files_extended(f, changes, req, order) ==
  build_pack_content_extended(f, req.paths, req.project_path, req.project_type,
                              format_of(req.format), req.max_file_bytes,
                              diffs_of(changes, req), order, req.instruction)

\* The iteration orders a freshly built diff map can have.
DiffOrders(changes, req) ==
  LET diffs == diffs_of(changes, req)
  IN  Orders(IF diffs.some THEN DOMAIN diffs.v ELSE {})

run_pack(f, changes, req, order) ==
  IF req.extended THEN pack_files_extended(f, changes, req, order) ELSE pack_files(f, req)

PackFiles ==
  /\ packReq = None
  /\ \E paths \in PathLists, format \in Formats, max_file_bytes \in Limits :
       LET req == PackRequest(FALSE, paths, ProjRoot, "Rust", format, max_file_bytes,
                              None, None)
       IN  /\ packReq' = Some(req)
           /\ packResult' = Some(pack_files(fs, req))
  /\ UNCHANGED <<shell, fs, pluginStore, ignored, detected, scanReq, scanResult, effects, events,
                 prevResult>>

PackFilesExtended ==
  /\ packReq = None
  /\ \E paths \in PathLists, format \in Formats, max_file_bytes \in Limits,
        include_diff \in {None, Some(TRUE)},
        instruction \in {None, Some([empty |-> TRUE, nl |-> FALSE]),
                         Some([empty |-> FALSE, nl |-> FALSE])} :
       LET req == PackRequest(TRUE, paths, ProjRoot, "Rust", format, max_file_bytes,
                              include_diff, instruction)
       IN  \E order \in DiffOrders(WorkingChanges, req) :
             /\ packReq' = Some(req)
             /\ packResult' = Some(pack_files_extended(fs, WorkingChanges, req, order))
  /\ UNCHANGED <<shell, fs, pluginStore, ignored, detected, scanReq, scanResult, effects, events,
                 prevResult>>

\* The command of packReq is called once more with the same arguments; the
\* file system and the working tree have not changed.
PackAgain ==
  /\ packReq.some
  /\ prevResult = None
  /\ scanReq = None
  /\ \E order \in DiffOrders(WorkingChanges, packReq.v) :
       /\ prevResult' = packResult
       /\ packResult' = Some(run_pack(fs, WorkingChanges, packReq.v, order))
  /\ UNCHANGED <<shell, fs, pluginStore, ignored, detected, scanReq, scanResult, effects, events,
                 packReq>>

NextPack == PackFiles \/ PackFilesExtended \/ PackAgain

SpecPack == InitPack /\ [][NextPack]_vars

\* ------------------------------------------------------------------------
\* Metadata: a Cargo.toml and marker files are written into the root, and
\* the root is scanned.
\* ------------------------------------------------------------------------

MaxDeps == 2

Entry(key, val) == [key |-> key, val |-> val]

\* The [dependencies] tables of up to MaxDeps keys, in every order a table
\* can hand its keys out.  A dependency is a version string, a table with a
\* version string, a table without a version, a table whose version is not
\* a string, or a value that is neither a string nor a table.
DepTables ==
  LET keys == {<<"s", "e", "r", "d", "e">>, <<"t", "o", "k", "i", "o">>, <<"r", "a", "n", "d">>}
      values == {TomlString(<<"1">>),
                 TomlTable(<<Entry(<<"v", "e", "r", "s", "i", "o", "n">>, TomlString(<<"0", ".", "8">>))>>),
                 TomlTable(<<Entry(<<"p", "a", "t", "h">>, TomlString(<<".", ".", "/", "l", "i", "b">>))>>),
                 TomlTable(<<Entry(<<"v", "e", "r", "s", "i", "o", "n">>, TomlInteger)>>),
                 TomlInteger}
  IN  {t \in SeqsUpTo({Entry(k, v) : k \in keys, v \in values}, MaxDeps) :
         \A i, j \in DOMAIN t : t[i].key = t[j].key => i = j}

\* The documents: without [package], with a full one, with one whose name
\* is not a string and whose description is empty; without dependencies,
\* with a dependencies key that is not a table, with a table; without and
\* with [dev-dependencies].
CargoDocs ==
  LET packages ==
        {<<>>,
         <<Entry(<<"p", "a", "c", "k", "a", "g", "e">>,
                 TomlTable(<<Entry(<<"n", "a", "m", "e">>, TomlString(<<"m", "y", "a", "p", "p">>)),
                             Entry(<<"v", "e", "r", "s", "i", "o", "n">>, TomlString(<<"0", ".", "2", ".", "0">>)),
                             Entry(<<"d", "e", "s", "c", "r", "i", "p", "t", "i", "o", "n">>, TomlString(<<"A", " ", "t", "e", "s", "t", " ", "a", "p", "p">>)),
                             Entry(<<"e", "d", "i", "t", "i", "o", "n">>, TomlString(<<"2", "0", "2", "1">>)),
                             Entry(<<"r", "u", "s", "t", "-", "v", "e", "r", "s", "i", "o", "n">>, TomlString(<<"1", ".", "7", "0">>))>>))>>,
         <<Entry(<<"p", "a", "c", "k", "a", "g", "e">>,
                 TomlTable(<<Entry(<<"n", "a", "m", "e">>, TomlInteger),
                             Entry(<<"d", "e", "s", "c", "r", "i", "p", "t", "i", "o", "n">>, TomlString(<<>>))>>))>>}
      dependencies ==
        {<<>>, <<Entry(<<"d", "e", "p", "e", "n", "d", "e", "n", "c", "i", "e", "s">>, TomlInteger)>>}
        \cup {<<Entry(<<"d", "e", "p", "e", "n", "d", "e", "n", "c", "i", "e", "s">>, TomlTable(t))>> : t \in DepTables}
      dev_dependencies ==
        {<<>>,
         <<Entry(<<"d", "e", "v", "-", "d", "e", "p", "e", "n", "d", "e", "n", "c", "i", "e", "s">>,
                 TomlTable(<<Entry(<<"s", "e", "r", "d", "e">>, TomlString(<<"1">>)),
                             Entry(<<"t", "e", "m", "p", "f", "i", "l", "e">>, TomlString(<<"3">>))>>))>>}
  IN  {TomlTable(p \o d \o v) : p \in packages, d \in dependencies, v \in dev_dependencies}

\* A Cargo.toml that is not UTF-8, one that is not TOML, and the documents.
CargoFiles ==
  {FileEntry(30, FALSE, FALSE), TomlFile([ok |-> FALSE])}
  \cup {TomlFile([ok |-> TRUE, v |-> doc]) : doc \in CargoDocs}

InitMeta ==
  /\ fs = (ProjRoot :> DirEntry)
  /\ pluginStore = <<SpecialPlugin>>
  /\ ignored = {}
  /\ Idle

WriteCargoToml ==
  /\ scanReq = None
  /\ join(ProjRoot, <<"C", "a", "r", "g", "o", ".", "t", "o", "m", "l">>) \notin DOMAIN fs
  /\ \E file \in CargoFiles : fs' = fs @@ (join(ProjRoot, <<"C", "a", "r", "g", "o", ".", "t", "o", "m", "l">>) :> file)
  /\ UNCHANGED <<shell, pluginStore, ignored, detected, scanReq, scanResult, effects, events,
                 packReq, packResult, prevResult>>

WriteMarker ==
  /\ scanReq = None
  /\ \E name \in {<<"s", "p", "e", "c", "i", "a", "l", ".", "c", "o", "n", "f", "i", "g">>, <<"G", "e", "m", "f", "i", "l", "e">>} :
       /\ join(ProjRoot, name) \notin DOMAIN fs
       /\ fs' = fs @@ (join(ProjRoot, name) :> FileEntry(10, TRUE, TRUE))
  /\ UNCHANGED <<shell, pluginStore, ignored, detected, scanReq, scanResult, effects, events,
                 packReq, packResult, prevResult>>

\* scan_directory for the root, without custom excludes.
ScanProject ==
  /\ scanReq = None
  /\ \E listing \in Listings(fs, ProjRoot) :
       LET s == scan(fs, pluginStore, ignored, ProjRoot, None, listing)
       IN  /\ scanReq' = Some([path |-> ProjRoot, custom_excludes |-> None,
                               async |-> FALSE])
           /\ scanResult' = Some(s.result)
           /\ effects' = s.effects
           /\ events' = <<>>
  /\ UNCHANGED <<shell, fs, pluginStore, ignored, detected, packReq, packResult, prevResult>>

NextMeta == WriteCargoToml \/ WriteMarker \/ ScanProject

SpecMeta == InitMeta /\ [][NextMeta]_vars

\* ------------------------------------------------------------------------
\* Manifests: the files of one ecosystem are written into the root, and the
\* root is scanned.
\* ------------------------------------------------------------------------

Manifest(family, name, entry) == [family |-> family, name |-> name, entry |-> entry]

\* package.json, tsconfig.json and the version files of a Node project;
\* next.config.js makes a root a Next.js project without a package.json.
NodeManifests ==
  LET Str(s) == [kind |-> "string", s |-> s, entries |-> <<>>]
      Obj(entries) == [kind |-> "object", s |-> <<>>, entries |-> entries]
      Num == [kind |-> "number", s |-> <<>>, entries |-> <<>>]
      Json(v) == JsonFile([ok |-> TRUE, v |-> v])
      NotJson == JsonFile([ok |-> FALSE])
  IN  {Manifest("node", <<"p", "a", "c", "k", "a", "g", "e", ".", "j", "s", "o", "n">>, e) :
         e \in {NotJson, Json(Obj(<<>>)),
                Json(Obj(<<Entry(<<"n", "a", "m", "e">>, Str(<<"w", "e", "b">>)),
                           Entry(<<"m", "a", "i", "n">>, Str(<<"i", "n", "d", "e", "x", ".", "j", "s">>)),
                           Entry(<<"e", "n", "g", "i", "n", "e", "s">>, Obj(<<Entry(<<"n", "o", "d", "e">>, Str(<<">", "=", "1", "8">>)),
                                                   Entry(<<"n", "p", "m">>, Num)>>)),
                           Entry(<<"d", "e", "p", "e", "n", "d", "e", "n", "c", "i", "e", "s">>, Obj(<<Entry(<<"r", "e", "a", "c", "t">>, Str(<<"^", "1", "8">>)),
                                                        Entry(<<"l", "o", "c", "a", "l">>, Obj(<<>>))>>)),
                           Entry(<<"d", "e", "v", "D", "e", "p", "e", "n", "d", "e", "n", "c", "i", "e", "s">>, Obj(<<Entry(<<"j", "e", "s", "t">>, Str(<<"^", "2", "9">>))>>))>>))}}
      \cup {Manifest("node", <<"t", "s", "c", "o", "n", "f", "i", "g", ".", "j", "s", "o", "n">>, e) :
              e \in {NotJson, FileEntry(30, FALSE, FALSE),
                     Json(Obj(<<Entry(<<"c", "o", "m", "p", "i", "l", "e", "r", "O", "p", "t", "i", "o", "n", "s">>,
                                      Obj(<<Entry(<<"t", "a", "r", "g", "e", "t">>, Str(<<"E", "S", "2", "0", "2", "0">>))>>))>>)),
                     Json(Obj(<<Entry(<<"c", "o", "m", "p", "i", "l", "e", "r", "O", "p", "t", "i", "o", "n", "s">>, Obj(<<Entry(<<"t", "a", "r", "g", "e", "t">>, Num)>>))>>)),
                     Json(Obj(<<Entry(<<"c", "o", "m", "p", "i", "l", "e", "r", "O", "p", "t", "i", "o", "n", "s">>, Str(<<"s", "t", "r", "i", "c", "t">>))>>))}}
      \cup {Manifest("node", <<".", "n", "v", "m", "r", "c">>, e) :
              e \in {TextFile(<<<<" ", "1", "8", ".", "1", " ">>>>), TextFile(<<<<" ", " ">>>>)}}
      \cup {Manifest("node", <<".", "n", "o", "d", "e", "-", "v", "e", "r", "s", "i", "o", "n">>, TextFile(<<<<"2", "0">>>>)),
            Manifest("node", <<"n", "e", "x", "t", ".", "c", "o", "n", "f", "i", "g", ".", "j", "s">>, FileEntry(10, TRUE, TRUE))}

MaxLines == 3

\* The files that are written line by line, each with the lines it may
\* get. requirements.txt: requirements with and without a version, a
\* comment, an option, a blank line. pubspec.yaml: the three
\* block keys, a blank line, a comment in the first column, indented
\* entries with a quoted version, the key sdk, no value, the value "^".
\* pom.xml: the start of a block, tags without a dependency around them, a
\* block with the start of a dependency, the end of a dependency, a
\* dependency without group and version, the end of a dependency and of
\* the block on one line, a block with a dependency on one line.
\* settings.gradle: a name, another statement.
\* go.mod: a block, a comment, a single-line require, another block, a
\* line of one word.
TextLines ==
  (<<"r", "e", "q", "u", "i", "r", "e", "m", "e", "n", "t", "s", ".", "t", "x", "t">> :> {<<"r", "e", "q", "u", "e", "s", "t", "s">>, <<" ", "#", " ", "p", "i", "n", "n", "e", "d">>, <<"-", "r", " ", "b", "a", "s", "e", ".", "t", "x", "t">>, <<>>,
                           <<" ", "u", "v", "i", "c", "o", "r", "n", "[", "s", "t", "a", "n", "d", "a", "r", "d", "]", " ", "~", "=", " ", "0", ".", "2">>}) @@
  (<<"p", "u", "b", "s", "p", "e", "c", ".", "y", "a", "m", "l">> :> {<<"d", "e", "p", "e", "n", "d", "e", "n", "c", "i", "e", "s", ":">>, <<"d", "e", "v", "_", "d", "e", "p", "e", "n", "d", "e", "n", "c", "i", "e", "s", ":">>, <<"e", "n", "v", "i", "r", "o", "n", "m", "e", "n", "t", ":">>, <<>>,
                       <<"#", " ", "n", "o", "t", "e">>, <<" ", " ", "h", "t", "t", "p", ":", " ">> \o <<"\"">> \o <<"^", "1", ".", "0">> \o <<"\"">>,
                       <<"\t">> \o <<"s", "d", "k", ":", " ", "f", "l", "u", "t", "t", "e", "r">>, <<" ", " ", "f", "l", "u", "t", "t", "e", "r", ":">>, <<" ", " ", "p", "a", "t", "h", ":", " ", "^">>}) @@
  (<<"p", "o", "m", ".", "x", "m", "l">> :> {<<"<", "d", "e", "p", "e", "n", "d", "e", "n", "c", "i", "e", "s", ">">>,
                  <<"<", "g", "r", "o", "u", "p", "I", "d", ">", "x", "<", "/", "g", "r", "o", "u", "p", "I", "d", ">", "<", "a", "r", "t", "i", "f", "a", "c", "t", "I", "d", ">", "y", "<", "/", "a", "r", "t", "i", "f", "a", "c", "t", "I", "d", ">">>,
                  <<"<", "d", "e", "p", "e", "n", "d", "e", "n", "c", "i", "e", "s", ">", "<", "d", "e", "p", "e", "n", "d", "e", "n", "c", "y", ">", "<", "g", "r", "o", "u", "p", "I", "d", ">", "g", "<", "/", "g", "r", "o", "u", "p", "I", "d", ">", "<", "a", "r", "t", "i", "f", "a", "c", "t", "I", "d", ">", "a", "<", "/", "a", "r", "t", "i", "f", "a", "c", "t", "I", "d", ">", "<", "v", "e", "r", "s", "i", "o", "n", ">", "1", "<", "/", "v", "e", "r", "s", "i", "o", "n", ">">>,
                  <<" ", " ", "<", "/", "d", "e", "p", "e", "n", "d", "e", "n", "c", "y", ">">>,
                  <<"<", "a", "r", "t", "i", "f", "a", "c", "t", "I", "d", ">", "b", "<", "/", "a", "r", "t", "i", "f", "a", "c", "t", "I", "d", ">", "<", "/", "d", "e", "p", "e", "n", "d", "e", "n", "c", "y", ">">>,
                  <<"<", "/", "d", "e", "p", "e", "n", "d", "e", "n", "c", "y", ">", "<", "/", "d", "e", "p", "e", "n", "d", "e", "n", "c", "i", "e", "s", ">">>,
                  <<"<", "d", "e", "p", "e", "n", "d", "e", "n", "c", "i", "e", "s", ">", "<", "d", "e", "p", "e", "n", "d", "e", "n", "c", "y", ">", "<", "a", "r", "t", "i", "f", "a", "c", "t", "I", "d", ">", "b", "<", "/", "a", "r", "t", "i", "f", "a", "c", "t", "I", "d", ">", "<", "/", "d", "e", "p", "e", "n", "d", "e", "n", "c", "y", ">">>}) @@
  (<<"s", "e", "t", "t", "i", "n", "g", "s", ".", "g", "r", "a", "d", "l", "e">> :> {<<"r", "o", "o", "t", "P", "r", "o", "j", "e", "c", "t", ".", "n", "a", "m", "e", " ", "=", " ", "'", "a", "p", "p", "'">>, <<"i", "n", "c", "l", "u", "d", "e", " ", "'", ":", "a", "p", "p", "'">>}) @@
  (<<"g", "o", ".", "m", "o", "d">> :> {<<"r", "e", "q", "u", "i", "r", "e", " ", "(">>, <<")">>, <<"\t">> \o <<"g", "i", "n", " ", "v", "1", ".", "9", ".", "1", " ", "/", "/", " ", "i", "n", "d", "i", "r", "e", "c", "t">>, <<>>,
                 <<"/", "/", " ", "n", "o", "t", "e">>, <<"r", "e", "q", "u", "i", "r", "e", " ", "z", "a", "p", " ", "v", "1", ".", "0">>, <<" ", "r", "e", "p", "l", "a", "c", "e", " ", "(", " ">>, <<"s", "o", "l", "o">>})

\* pyproject.toml without [project], with dependencies that are an array
\* (of strings and another value), an empty array, no array; an empty
\* requirements.txt, a version file.
PythonManifests ==
  LET Toml(entries) == TomlFile([ok |-> TRUE, v |-> TomlTable(entries)])
      Project(entries) == Toml(<<Entry(<<"p", "r", "o", "j", "e", "c", "t">>, TomlTable(entries))>>)
  IN  {Manifest("python", <<"p", "y", "p", "r", "o", "j", "e", "c", "t", ".", "t", "o", "m", "l">>, e) :
         e \in {TomlFile([ok |-> FALSE]), Toml(<<>>),
                Project(<<Entry(<<"n", "a", "m", "e">>, TomlString(<<"s", "v", "c">>)),
                          Entry(<<"r", "e", "q", "u", "i", "r", "e", "s", "-", "p", "y", "t", "h", "o", "n">>, TomlString(<<">", "=", "3", ".", "8">>)),
                          Entry(<<"d", "e", "p", "e", "n", "d", "e", "n", "c", "i", "e", "s">>,
                                TomlArray(<<TomlString(<<" ", "f", "l", "a", "s", "k", ">", "=", "2", ".", "0", " ">>), TomlInteger,
                                            TomlString(<<"n", "u", "m", "p", "y", "[", "e", "x", "t", "r", "a", "]", " ", ";", " ", "x">>)>>))>>),
                Project(<<Entry(<<"d", "e", "s", "c", "r", "i", "p", "t", "i", "o", "n">>, TomlString(<<>>)),
                          Entry(<<"d", "e", "p", "e", "n", "d", "e", "n", "c", "i", "e", "s">>, TomlArray(<<TomlInteger>>))>>),
                Project(<<Entry(<<"v", "e", "r", "s", "i", "o", "n">>, TomlString(<<"0", ".", "1">>)),
                          Entry(<<"d", "e", "p", "e", "n", "d", "e", "n", "c", "i", "e", "s">>, TomlString(<<"f", "l", "a", "s", "k">>))>>)}}
      \cup {Manifest("python", <<"r", "e", "q", "u", "i", "r", "e", "m", "e", "n", "t", "s", ".", "t", "x", "t">>, TextFile(<<>>)),
            Manifest("python", <<".", "p", "y", "t", "h", "o", "n", "-", "v", "e", "r", "s", "i", "o", "n">>, TextFile(<<<<" ", "3", ".", "1", "1", " ">>>>))}

GoManifests == {Manifest("go", <<"g", "o", ".", "m", "o", "d">>, TextFile(<<>>))}

DartManifests == {Manifest("dart", <<"p", "u", "b", "s", "p", "e", "c", ".", "y", "a", "m", "l">>, TextFile(<<>>))}

MavenManifests == {Manifest("maven", <<"p", "o", "m", ".", "x", "m", "l">>, TextFile(<<>>))}

GradleManifests ==
  {Manifest("gradle", <<"b", "u", "i", "l", "d", ".", "g", "r", "a", "d", "l", "e">>, FileEntry(10, TRUE, TRUE)),
   Manifest("gradle", <<"s", "e", "t", "t", "i", "n", "g", "s", ".", "g", "r", "a", "d", "l", "e">>, TextFile(<<>>))}

Manifests ==
  NodeManifests \cup PythonManifests \cup GoManifests \cup DartManifests \cup MavenManifests
    \cup GradleManifests

\* A file of an ecosystem is written into a root that holds no file of
\* another one.
WriteManifest ==
  /\ scanReq = None
  /\ \E m \in Manifests :
       /\ join(ProjRoot, m.name) \notin DOMAIN fs
       /\ \A other \in Manifests :
            join(ProjRoot, other.name) \in DOMAIN fs => other.family = m.family
       /\ fs' = fs @@ (join(ProjRoot, m.name) :> m.entry)
  /\ UNCHANGED <<shell, pluginStore, ignored, detected, scanReq, scanResult, effects, events,
                 packReq, packResult, prevResult>>

\* A line is added at the end of one of the text files of the root.
AppendLine ==
  /\ scanReq = None
  /\ \E name \in DOMAIN TextLines :
       LET path == join(ProjRoot, name)
       IN  /\ path \in DOMAIN fs
           /\ Len(fs[path].lines) < MaxLines
           /\ \E line \in TextLines[name] :
                fs' = [fs EXCEPT ![path].lines = Append(@, line)]
  /\ UNCHANGED <<shell, pluginStore, ignored, detected, scanReq, scanResult, effects, events,
                 packReq, packResult, prevResult>>

NextManifest == WriteManifest \/ AppendLine \/ ScanProject

SpecManifest == InitMeta /\ [][NextManifest]_vars

\* ------------------------------------------------------------------------
\* scan_directory_async, step by step: the closure handed to spawn_blocking
\* runs from one emit to the next while files appear in the root.
\* ------------------------------------------------------------------------

\* The locals of the closure and the statement it is at.
Task(at, project_type, extra_excludes, extra_extensions, tree, total_files, metadata) ==
  [at |-> at, project_type |-> project_type, extra_excludes |-> extra_excludes,
   extra_extensions |-> extra_extensions, tree |-> tree, total_files |-> total_files,
   metadata |-> metadata]

\* A variant of done_progress that reports no files.
done_progress_without_count(tk) == ScanProgress("done", 0)

\* The last event of the closure.
done_progress(tk) == ScanProgress("done", tk.total_files)

InitAsync ==
  /\ fs = (ProjRoot :> DirEntry)
  /\ pluginStore \in {<<>>, <<XyzPlugin>>}
  /\ ignored = {}
  /\ Idle

\* A file appears in the root, before a scan or while its task runs.
CreateRootFile ==
  /\ scanResult = None
  /\ Cardinality(DOMAIN fs) - 1 < MaxEntries
  /\ \E file \in ScanFiles :
       /\ join(ProjRoot, file.name) \notin DOMAIN fs
       /\ fs' = fs @@ (join(ProjRoot, file.name) :> file.entry)
  /\ UNCHANGED <<pluginStore, ignored, detected, scanReq, scanResult, effects, events,
                 packReq, packResult, prevResult, shell>>

\* The command is called: the closure is handed to the blocking pool.
AsyncSpawn ==
  /\ scanReq = None /\ task = None
  /\ \E path \in ScanRoots, custom_excludes \in CustomExcludes :
       scanReq' = Some([path |-> path, custom_excludes |-> custom_excludes, async |-> TRUE])
  /\ task' = Some(Task("check", "", <<>>, <<>>, <<>>, 0, <<>>))
  /\ UNCHANGED <<fs, pluginStore, ignored, detected, scanResult, effects, events,
                 packReq, packResult, prevResult,
                 mutex, watcher, alive, callers, config, clock, prompts, lastCall>>

\* The root check, and the first event when it passes.
AsyncCheck ==
  /\ task.some /\ task.v.at = "check"
  /\ effects' = Append(effects, "check")
  /\ IF root_unusable(fs, scanReq.v.path)
     THEN /\ scanResult' = Some([ok |-> FALSE,
                                 v |-> "Path does not exist or is not a directory"])
          /\ task' = None
          /\ UNCHANGED events
     ELSE /\ events' = Append(events, ScanProgress("detecting", 0))
          /\ task' = Some([task.v EXCEPT !.at = "detect"])
          /\ UNCHANGED scanResult
  /\ UNCHANGED <<fs, pluginStore, ignored, detected, scanReq, packReq, packResult, prevResult,
                 mutex, watcher, alive, callers, config, clock, prompts, lastCall>>

\* load_plugins, the detection, the extra excludes and extensions, and the
\* second event.
AsyncDetect ==
  /\ task.some /\ task.v.at = "detect"
  /\ \E listing \in Listings(fs, scanReq.v.path) :
       LET plugins == pluginStore
           custom_excludes == scanReq.v.custom_excludes
       IN  task' = Some([task.v EXCEPT
                           !.at = "walk",
                           !.project_type =
                             detect_project_type_with_plugins(fs, scanReq.v.path, plugins, listing),
                           !.extra_excludes =
                             get_plugin_excluded_dirs(plugins)
                               \o (IF custom_excludes.some THEN custom_excludes.v ELSE <<>>),
                           !.extra_extensions = get_plugin_source_extensions(plugins)])
  /\ effects' = effects \o <<"load_plugins", "detect_project_type">>
  /\ events' = Append(events, ScanProgress("scanning", 0))
  /\ UNCHANGED <<fs, pluginStore, ignored, detected, scanReq, scanResult,
                 packReq, packResult, prevResult,
                 mutex, watcher, alive, callers, config, clock, prompts, lastCall>>

\* The tree, its count, and the third event.
AsyncWalk ==
  /\ task.some /\ task.v.at = "walk"
  /\ LET tree == build_file_tree(fs, scanReq.v.path, task.v.extra_excludes,
                                 task.v.extra_extensions, ignored)
         total_files == count_files(tree)
     IN  /\ task' = Some([task.v EXCEPT !.at = "extract", !.tree = tree,
                                        !.total_files = total_files])
         /\ events' = Append(events, ScanProgress("metadata", total_files))
  /\ effects' = effects \o <<"build_file_tree", "count_files">>
  /\ UNCHANGED <<fs, pluginStore, ignored, detected, scanReq, scanResult,
                 packReq, packResult, prevResult,
                 mutex, watcher, alive, callers, config, clock, prompts, lastCall>>

\* The metadata and the last event.
AsyncExtract ==
  /\ task.some /\ task.v.at = "extract"
  /\ task' = Some([task.v EXCEPT
                     !.at = "return",
                     !.metadata = extract_metadata(fs, scanReq.v.path, task.v.project_type)])
  /\ effects' = Append(effects, "extract_metadata")
  /\ events' = Append(events, done_progress(task.v))
  /\ UNCHANGED <<fs, pluginStore, ignored, detected, scanReq, scanResult,
                 packReq, packResult, prevResult,
                 mutex, watcher, alive, callers, config, clock, prompts, lastCall>>

\* The closure returns Ok(ScanResult), and the command with it.
AsyncReturn ==
  /\ task.some /\ task.v.at = "return"
  /\ scanResult' = Some([ok |-> TRUE,
                         v |-> [project_type |-> task.v.project_type, tree |-> task.v.tree,
                                total_files |-> task.v.total_files,
                                metadata |-> task.v.metadata]])
  /\ task' = None
  /\ UNCHANGED <<fs, pluginStore, ignored, detected, scanReq, effects, events,
                 packReq, packResult, prevResult,
                 mutex, watcher, alive, callers, config, clock, prompts, lastCall>>

RunTask == AsyncCheck \/ AsyncDetect \/ AsyncWalk \/ AsyncExtract \/ AsyncReturn

NextAsync == CreateRootFile \/ AsyncSpawn \/ RunTask

SpecAsync == InitAsync /\ [][NextAsync]_vars

\* ------------------------------------------------------------------------
\* The watcher (watcher.rs): callers run start_watching and stop_watching
\* statement by statement.
\* ------------------------------------------------------------------------

\* The callers of the two commands, and the paths they ask for.
Callers == {"a", "b"}

WatchPaths == {ProjRoot, NoSuchRoot}

\* Where a caller is: in no call, or in a call of op at a statement, with
\* the path it was given and its local watcher.
Frame(op, at, path, local) == [op |-> op, at |-> at, path |-> path, local |-> local]

Resting == Frame("none", "none", <<>>, None)

\* A RecommendedWatcher whose callback holds the path.
Watcher(path) == [path |-> path]

\* Dropping a watcher: it is no longer among the live ones.
dropped(live, w) ==
  IF ~w.some THEN live
  ELSE LET at == CHOOSE i \in DOMAIN live : live[i] = w.v
       IN  SubSeq(live, 1, at - 1) \o SubSeq(live, at + 1, Len(live))

\* A variant of lock_granted for a lock that lets every caller in.
lock_granted_to_all(m) == TRUE

\* Mutex::lock returns when no caller holds the lock.
lock_granted(m) == m = None

\* The result a call returns with, the guard being dropped with it.
Returns(c, ok) ==
  /\ mutex' = None
  /\ lastCall' = Some([cmd |-> callers[c].op, path |-> callers[c].path, ok |-> ok])
  /\ callers' = [callers EXCEPT ![c] = Resting]

InitWatch ==
  /\ fs = (ProjRoot :> DirEntry)
  /\ pluginStore = <<>> /\ ignored = {}
  /\ detected = None
  /\ scanReq = None /\ scanResult = None /\ effects = <<>> /\ events = <<>>
  /\ packReq = None /\ packResult = None /\ prevResult = None
  /\ task = None
  /\ mutex = None /\ watcher = None /\ alive = <<>>
  /\ callers = [c \in Callers |-> Resting]
  /\ config = <<>> /\ clock = 0 /\ prompts = None /\ lastCall = None

\* start_watching_cmd is called.
StartWatching(c) ==
  /\ callers[c] = Resting
  /\ \E path \in WatchPaths : callers' = [callers EXCEPT ![c] = Frame("start", "lock", path, None)]
  /\ UNCHANGED <<mutex, watcher, alive, lastCall>>
  /\ UNCHANGED <<core, task, config, clock, prompts>>

\* stop_watching_cmd is called.
StopWatching(c) ==
  /\ callers[c] = Resting
  /\ callers' = [callers EXCEPT ![c] = Frame("stop", "lock", <<>>, None)]
  /\ UNCHANGED <<mutex, watcher, alive, lastCall>>
  /\ UNCHANGED <<core, task, config, clock, prompts>>

\* state.watcher.lock()
Lock(c) ==
  /\ callers[c].at = "lock"
  /\ lock_granted(mutex)
  /\ mutex' = Some(c)
  /\ callers' = [callers EXCEPT ![c].at = "clear"]
  /\ UNCHANGED <<watcher, alive, lastCall>>
  /\ UNCHANGED <<core, task, config, clock, prompts>>

\* *guard = None, in start_watching
StartClear(c) ==
  /\ callers[c].op = "start" /\ callers[c].at = "clear"
  /\ alive' = dropped(alive, watcher)
  /\ watcher' = None
  /\ callers' = [callers EXCEPT ![c].at = "new"]
  /\ UNCHANGED <<mutex, lastCall>>
  /\ UNCHANGED <<core, task, config, clock, prompts>>

\* RecommendedWatcher::new, which gives a watcher or an error
StartNew(c) ==
  /\ callers[c].op = "start" /\ callers[c].at = "new"
  /\ \/ /\ alive' = Append(alive, Watcher(callers[c].path))
        /\ callers' = [callers EXCEPT ![c].at = "watch",
                                      ![c].local = Some(Watcher(callers[c].path))]
        /\ UNCHANGED <<mutex, watcher, lastCall>>
     \/ /\ Returns(c, FALSE)
        /\ UNCHANGED <<watcher, alive>>
  /\ UNCHANGED <<core, task, config, clock, prompts>>

\* watcher.watch(path), an error for a path that is not there
StartWatch(c) ==
  /\ callers[c].op = "start" /\ callers[c].at = "watch"
  /\ IF exists(fs, callers[c].path)
     THEN /\ callers' = [callers EXCEPT ![c].at = "store"]
          /\ UNCHANGED <<mutex, watcher, alive, lastCall>>
     ELSE /\ alive' = dropped(alive, callers[c].local)
          /\ Returns(c, FALSE)
          /\ UNCHANGED watcher
  /\ UNCHANGED <<core, task, config, clock, prompts>>

\* *guard = Some(watcher); Ok(())
StartStore(c) ==
  /\ callers[c].op = "start" /\ callers[c].at = "store"
  /\ watcher' = callers[c].local
  /\ Returns(c, TRUE)
  /\ UNCHANGED alive
  /\ UNCHANGED <<core, task, config, clock, prompts>>

\* *guard = None; Ok(()), in stop_watching
StopClear(c) ==
  /\ callers[c].op = "stop" /\ callers[c].at = "clear"
  /\ alive' = dropped(alive, watcher)
  /\ watcher' = None
  /\ Returns(c, TRUE)
  /\ UNCHANGED <<core, task, config, clock, prompts>>

NextWatch ==
  \E c \in Callers :
    \/ StartWatching(c) \/ StopWatching(c) \/ Lock(c)
    \/ StartClear(c) \/ StartNew(c) \/ StartWatch(c) \/ StartStore(c)
    \/ StopClear(c)

SpecWatch == InitWatch /\ [][NextWatch]_vars

\* ---- the project configuration file (codepack_config.json) ----

MaxClock == 1

Projects == {"p", "q"}

PresetNames == {"A"}

CheckedLists == {<<>>, <<"src/a.rs">>}

RuleLists == {<<>>, <<"dist">>}

\* format!("{}", secs): the decimal digits of a number.
RECURSIVE decimal(_)
decimal(n) ==
  LET digit == SubSeq(<<"0", "1", "2", "3", "4", "5", "6", "7", "8", "9">>, (n % 10) + 1, (n % 10) + 1)
  IN  IF n < 10 THEN digit ELSE decimal(n \div 10) \o digit

\* chrono_now: the seconds since the epoch, as text.
chrono_now == decimal(clock)

ProjectConfig(project_path, checked_paths, excluded_paths, last_opened, presets, pinned) ==
  [project_path |-> project_path, checked_paths |-> checked_paths,
   excluded_paths |-> excluded_paths, last_opened |-> last_opened,
   presets |-> presets, pinned |-> pinned]

\* HashMap::new() and HashMap::insert / remove on a map held as a function.
EmptyMap == [k \in {} |-> <<>>]

insert(map, k, v) == [x \in DOMAIN map \cup {k} |-> IF x = k THEN v ELSE map[x]]

remove(map, k) == [x \in DOMAIN map \ {k} |-> map[x]]

\* The configuration files a session can start from: none (load_app_config
\* gives the default), or one written earlier that holds project q, pinned
\* or not, with a preset and exclude rules.
StoredConfigs ==
  {EmptyMap}
  \cup {insert(EmptyMap, "q",
               ProjectConfig("q", <<"src/a.rs">>, <<"dist">>, decimal(0),
                             insert(EmptyMap, "A", <<"b.rs">>), pinned)) :
          pinned \in BOOLEAN}

\* What a command returned: its name, its project and its result.
Call(cmd, path, ok, ret) == [cmd |-> cmd, path |-> path, ok |-> ok, ret |-> ret]

\* save_app_config: the file is replaced, or the write fails and the file
\* stays as it was.
save_app_config(cmd, path, new) ==
  \E ok \in BOOLEAN :
    /\ config' = IF ok THEN new ELSE config
    /\ lastCall' = Some(Call(cmd, path, ok, <<>>))

\* save_project_config: presets and pinned are taken from the entry the file
\* has (empty and false without one); every other field is written anew.
save_project_config(project_path, checked_paths) ==
  LET kept == IF project_path \in DOMAIN config
              THEN <<config[project_path].presets, config[project_path].pinned>>
              ELSE <<EmptyMap, FALSE>>
  IN  insert(config, project_path,
             ProjectConfig(project_path, checked_paths, <<>>, chrono_now,
                           kept[1], kept[2]))

save_preset(project_path, preset_name, checked_paths) ==
  IF project_path \in DOMAIN config
  THEN [config EXCEPT ![project_path].presets = insert(@, preset_name, checked_paths)]
  ELSE insert(config, project_path,
              ProjectConfig(project_path, checked_paths, <<>>, chrono_now,
                            insert(EmptyMap, preset_name, checked_paths), FALSE))

delete_preset(project_path, preset_name) ==
  IF project_path \in DOMAIN config
  THEN [config EXCEPT ![project_path].presets = remove(@, preset_name)]
  ELSE config

save_exclude_rules(project_path, rules) ==
  IF project_path \in DOMAIN config
  THEN [config EXCEPT ![project_path].excluded_paths = rules]
  ELSE insert(config, project_path,
              ProjectConfig(project_path, <<>>, rules, chrono_now, EmptyMap, FALSE))

load_exclude_rules(project_path) ==
  IF project_path \in DOMAIN config THEN config[project_path].excluded_paths ELSE <<>>

InitConfig ==
  /\ fs = (ProjRoot :> DirEntry)
  /\ pluginStore = <<>> /\ ignored = {}
  /\ detected = None
  /\ scanReq = None /\ scanResult = None /\ effects = <<>> /\ events = <<>>
  /\ packReq = None /\ packResult = None /\ prevResult = None
  /\ task = None
  /\ mutex = None /\ watcher = None /\ alive = <<>> /\ callers = <<>>
  /\ config \in StoredConfigs
  /\ clock = 0
  /\ prompts = None /\ lastCall = None

\* A second passes.
Tick ==
  /\ clock < MaxClock
  /\ clock' = clock + 1
  /\ UNCHANGED <<core, task, mutex, watcher, alive, callers, config, prompts, lastCall>>

SaveProjectConfig ==
  /\ \E project_path \in Projects, checked_paths \in CheckedLists :
       save_app_config("save_project_config", project_path,
                       save_project_config(project_path, checked_paths))
  /\ UNCHANGED <<core, task, mutex, watcher, alive, callers, clock, prompts>>

SavePreset ==
  /\ \E project_path \in Projects, preset_name \in PresetNames, checked_paths \in CheckedLists :
       save_app_config("save_preset", project_path,
                       save_preset(project_path, preset_name, checked_paths))
  /\ UNCHANGED <<core, task, mutex, watcher, alive, callers, clock, prompts>>

DeletePreset ==
  /\ \E project_path \in Projects, preset_name \in PresetNames :
       save_app_config("delete_preset", project_path,
                       delete_preset(project_path, preset_name))
  /\ UNCHANGED <<core, task, mutex, watcher, alive, callers, clock, prompts>>

SaveExcludeRules ==
  /\ \E project_path \in Projects, rules \in RuleLists :
       save_app_config("save_exclude_rules", project_path,
                       save_exclude_rules(project_path, rules))
  /\ UNCHANGED <<core, task, mutex, watcher, alive, callers, clock, prompts>>

LoadExcludeRules ==
  /\ \E project_path \in Projects :
       lastCall' = Some(Call("load_exclude_rules", project_path, TRUE,
                             load_exclude_rules(project_path)))
  /\ UNCHANGED <<core, task, mutex, watcher, alive, callers, config, clock, prompts>>

NextConfig ==
  \/ Tick \/ SaveProjectConfig \/ SavePreset \/ DeletePreset
  \/ SaveExcludeRules \/ LoadExcludeRules

SpecConfig == InitConfig /\ [][NextConfig]_vars

\* ---- the review prompts file (codepack_review_prompts.json) ----

ReviewPrompt(name, icon, instruction, builtin) ==
  [name |-> name, icon |-> icon, instruction |-> instruction, builtin |-> builtin]

\* builtin_prompts: the three prompts compiled into the program; the icons
\* and the instruction texts are abbreviated.
builtin_prompts ==
  <<ReviewPrompt("Security Expert", "lock", "You are a senior security expert.", TRUE),
    ReviewPrompt("Performance Optimizer", "zap", "You are a performance engineer.", TRUE),
    ReviewPrompt("Clean Code", "broom", "You are a clean code advocate.", TRUE)>>

\* The prompts a caller can hand to save_review_prompt_cmd, and the names it
\* can hand to delete_review_prompt_cmd.
PromptNames == {"Clean Code", "Mine", "Other"}

PromptArgs ==
  {ReviewPrompt(name, "pin", instruction, builtin) :
     name \in {"Clean Code", "Mine"}, instruction \in {"Be brief.", "Be strict."},
     builtin \in BOOLEAN}

\* The list the file holds: empty when there is no file.
custom_prompts(file) == IF file.some THEN file.v ELSE <<>>

\* load_review_prompts: the builtin prompts, then the ones of the file.
load_review_prompts(file) == builtin_prompts \o custom_prompts(file)

\* save_custom_review_prompt: the icon and the instruction of the first
\* stored prompt of that name are replaced, or the prompt is pushed.
save_custom_review_prompt(file, prompt) ==
  LET custom == custom_prompts(file)
      same == {i \in DOMAIN custom : custom[i].name = prompt.name}
      first == CHOOSE i \in same : \A j \in same : i <= j
  IN  IF same # {}
      THEN [custom EXCEPT ![first].icon = prompt.icon,
                          ![first].instruction = prompt.instruction]
      ELSE Append(custom, prompt)

\* custom.retain(|p| p.name != name)
RECURSIVE retain_other_names(_, _)
retain_other_names(custom, name) ==
  IF custom = <<>> THEN <<>>
  ELSE IF Head(custom).name # name
       THEN <<Head(custom)>> \o retain_other_names(Tail(custom), name)
       ELSE retain_other_names(Tail(custom), name)

\* The check of delete_review_prompt_cmd: some loaded prompt has the name and
\* is builtin.
names_a_builtin(file, name) ==
  \E i \in DOMAIN load_review_prompts(file) :
    load_review_prompts(file)[i].name = name /\ load_review_prompts(file)[i].builtin

\* fs::write of the prompts file: it is replaced, or the write fails and the
\* file stays as it was.
write_prompts(cmd, arg, new) ==
  \E ok \in BOOLEAN :
    /\ prompts' = IF ok THEN Some(new) ELSE prompts
    /\ lastCall' = Some(Call(cmd, arg, ok, IF ok THEN "" ELSE "io"))

InitPrompts ==
  /\ fs = (ProjRoot :> DirEntry)
  /\ pluginStore = <<>> /\ ignored = {}
  /\ detected = None
  /\ scanReq = None /\ scanResult = None /\ effects = <<>> /\ events = <<>>
  /\ packReq = None /\ packResult = None /\ prevResult = None
  /\ task = None
  /\ mutex = None /\ watcher = None /\ alive = <<>> /\ callers = <<>>
  /\ config = EmptyMap /\ clock = 0
  /\ prompts = None /\ lastCall = None

ListReviewPrompts ==
  /\ lastCall' = Some(Call("list_review_prompts_cmd", <<>>, TRUE, load_review_prompts(prompts)))
  /\ UNCHANGED <<core, task, mutex, watcher, alive, callers, config, clock, prompts>>

SaveReviewPrompt ==
  /\ \E prompt \in PromptArgs :
       IF prompt.builtin
       THEN /\ lastCall' = Some(Call("save_review_prompt_cmd", prompt, FALSE,
                                     "Cannot modify builtin prompts"))
            /\ UNCHANGED prompts
       ELSE write_prompts("save_review_prompt_cmd", prompt,
                          save_custom_review_prompt(prompts, prompt))
  /\ UNCHANGED <<core, task, mutex, watcher, alive, callers, config, clock>>

DeleteReviewPrompt ==
  /\ \E name \in PromptNames :
       IF names_a_builtin(prompts, name)
       THEN /\ lastCall' = Some(Call("delete_review_prompt_cmd", name, FALSE,
                                     "Cannot delete builtin prompts"))
            /\ UNCHANGED prompts
       ELSE IF ~prompts.some
       THEN /\ lastCall' = Some(Call("delete_review_prompt_cmd", name, TRUE, ""))
            /\ UNCHANGED prompts
       ELSE write_prompts("delete_review_prompt_cmd", name,
                          retain_other_names(custom_prompts(prompts), name))
  /\ UNCHANGED <<core, task, mutex, watcher, alive, callers, config, clock>>

NextPrompts == ListReviewPrompts \/ SaveReviewPrompt \/ DeleteReviewPrompt

SpecPrompts == InitPrompts /\ [][NextPrompts]_vars

\* ------------------------------------------------------------------------
\* Properties
\* ------------------------------------------------------------------------

\* The number of times path p occurs in a run list of paths.
Occurrences(runs, p) ==
  SumSeq([i \in DOMAIN runs |-> IF runs[i].path = p THEN runs[i].times ELSE 0])

\* The number of rendered entries of the file at path p in a text.
EntriesOf(text, p) ==
  SumSeq([i \in DOMAIN text |->
    text[i].times * Cardinality({j \in DOMAIN text[i].toks :
                                   text[i].toks[j].w = "content" /\ text[i].toks[j].p = p})])

\* The number of rendered entries of files in a text, and their bytes.
RenderedEntries(text) ==
  SumSeq([i \in DOMAIN text |->
    text[i].times * Cardinality({j \in DOMAIN text[i].toks : text[i].toks[j].w = "content"})])

RenderedBytes(text) ==
  SumSeq([i \in DOMAIN text |->
    text[i].times * SumSeq([j \in DOMAIN text[i].toks |->
                              IF text[i].toks[j].w = "content" THEN text[i].toks[j].n ELSE 0])])

\* The number of skip records a list holds for the relative path rel.
SkipsOf(skipped, rel) ==
  SumSeq([i \in DOMAIN skipped |-> IF skipped[i].path = rel THEN skipped[i].times ELSE 0])

RelativeTo(root, p) ==
  IF Len(p) >= Len(root) /\ SubSeq(p, 1, Len(root)) = root
  THEN SubSeq(p, Len(root) + 1, Len(p)) ELSE p

\* C1: after a pack, every occurrence of a path is either one rendered entry
\* counted in file_count or one SkippedFile record, so that file_count +
\* length(skipped_files) = length(paths).
C1_EveryPathAccounted ==
  (packReq.some /\ packResult.some) =>
    LET req == packReq.v
        res == packResult.v
    IN  /\ res.file_count + Count(res.skipped_files) = Count(req.paths)
        /\ res.file_count = RenderedEntries(res.body)
        /\ \A i \in DOMAIN req.paths :
             LET p == req.paths[i].path
             IN  Occurrences(req.paths, p)
                 = EntriesOf(res.body, p)
                   + SkipsOf(res.skipped_files, RelativeTo(req.project_path, p))

\* A pack that included MAX_FILE_COUNT files and skipped the one after them.
C1_Witness ==
  /\ packReq.some /\ packResult.some
  /\ Len(packReq.v.paths) = 2
  /\ packResult.v.file_count = MAX_FILE_COUNT
  /\ Count(packResult.v.skipped_files) = 1

StatSize(p) == IF p \in DOMAIN fs THEN fs[p].size ELSE 0

ActiveLimit(req) == IF req.max_file_bytes.some THEN req.max_file_bytes.v ELSE 1048576

HasWord(reason, word) == \E i \in DOMAIN reason : reason[i].w = word

\* A skip record made for the size of the file: its reason gives the limit
\* and the size in KB.
IsSizeSkip(s) == HasWord(s.reason, "{}KB") /\ HasWord(s.reason, "({}KB)")

\* C2: after a pack, a path has a size skip exactly when its stat size is
\* strictly greater than the active limit (1 MiB by default); a size skip
\* has size_bytes > limit and a reason with the word "limit", and the file
\* has no entry in the body, so that total_bytes and file_count count the
\* rendered entries only.
C2_SizeSkipIffOverLimit ==
  (packReq.some /\ packResult.some) =>
    LET req == packReq.v
        res == packResult.v
        limit == ActiveLimit(req)
    IN  /\ \A i \in DOMAIN req.paths :
             LET p == req.paths[i].path
                 size_skips == {j \in DOMAIN res.skipped_files :
                                  /\ IsSizeSkip(res.skipped_files[j])
                                  /\ res.skipped_files[j].path
                                     = RelativeTo(req.project_path, p)}
             IN  /\ (StatSize(p) > limit) <=> (size_skips # {})
                 /\ StatSize(p) > limit => EntriesOf(res.body, p) = 0
        /\ \A j \in DOMAIN res.skipped_files :
             IsSizeSkip(res.skipped_files[j]) =>
               /\ res.skipped_files[j].size_bytes > limit
               /\ HasWord(res.skipped_files[j].reason, "limit")
        /\ res.total_bytes = RenderedBytes(res.body)
        /\ res.file_count = RenderedEntries(res.body)

\* A pack with a limit of 100 bytes over a file of exactly 100 bytes, which is
\* included, and a file of 200 bytes, which is skipped.
C2_Witness ==
  /\ packReq.some /\ packResult.some
  /\ packReq.v.max_file_bytes = Some(100)
  /\ packReq.v.paths = <<Run(EdgeFile, 1), Run(BigFile, 1)>>
  /\ packResult.v.file_count = 1
  /\ packResult.v.total_bytes = 100
  /\ Len(packResult.v.skipped_files) = 1
  /\ packResult.v.skipped_files[1].size_bytes = 200

\* The extra excludes of the scan that was asked for: those of the plugins,
\* then the caller's.
ScanExtraExcludes ==
  Flatten([i \in DOMAIN pluginStore |-> pluginStore[i].exclude_dirs])
  \o (IF scanReq.v.custom_excludes.some THEN scanReq.v.custom_excludes.v ELSE <<>>)

ScanExtraExtensions ==
  Flatten([i \in DOMAIN pluginStore |-> pluginStore[i].source_extensions])

\* The lower-case forms of the denylist and of the extra excludes.
DeniedLower(extra_excludes) ==
  {to_lowercase(EXCLUDED_DIRS[i]) : i \in DOMAIN EXCLUDED_DIRS}
  \cup {to_lowercase(extra_excludes[i]) : i \in DOMAIN extra_excludes}

\* The names of the directories on the way from below root to path: every
\* name of the path below the root for a directory, all but the last for a
\* file.
DirNames(root, path, is_dir_) ==
  {path[k] : k \in (Len(root) + 1)..(IF is_dir_ THEN Len(path) ELSE Len(path) - 1)}

ScanOk == scanReq.some /\ scanResult.some /\ scanResult.v.ok

\* C3: in the tree a scan returns, no node is a directory whose name matches
\* the denylist or the extra excludes ignoring ASCII case, and no node lies
\* beneath such a directory, at any depth below the root.
C3_ExcludedDirsAbsent ==
  ScanOk =>
    LET root == scanReq.v.path
        denied == DeniedLower(ScanExtraExcludes)
    IN  \A node \in tree_nodes(scanResult.v.v.tree) :
          \A name \in DirNames(root, node.path, node.is_dir) :
            to_lowercase(name) \notin denied

\* A scan of a project whose only source file is in src/Node_Modules, with
\* nothing ignored.
C3_Witness ==
  /\ ScanOk
  /\ scanReq.v.path = ProjRoot
  /\ ignored = {}
  /\ join(join(join(ProjRoot, <<"s", "r", "c">>), <<"N", "o", "d", "e", "_", "M", "o", "d", "u", "l", "e", "s">>), <<"m", "a", "i", "n", ".", "r", "s">>) \in DOMAIN fs
  /\ scanResult.v.v.total_files = 0

\* The files below root that a scan is to show: source files that are not
\* hidden and not ignored, below directories none of which is excluded; with
\* strict, also none of which is hidden or ignored.
ShownFiles(root, strict) ==
  {p \in DOMAIN fs :
     /\ fs[p].kind = "file"
     /\ Len(p) > Len(root) /\ SubSeq(p, 1, Len(root)) = root
     /\ ~is_hidden(p[Len(p)])
     /\ p[Len(p)] \notin ignored
     /\ is_source_file(p[Len(p)], ScanExtraExtensions)
     /\ \A name \in DirNames(root, p, FALSE) :
          /\ to_lowercase(name) \notin DeniedLower(ScanExtraExcludes)
          /\ name \notin ignored
          /\ strict => ~is_hidden(name)}

\* The tree of the scan shows exactly the files of the set S, each once, and
\* total_files is their number.
TreeShows(S) ==
  LET leaves == leaf_paths(scanResult.v.v.tree)
  IN  /\ {leaves[i] : i \in DOMAIN leaves} = S
      /\ Len(leaves) = Cardinality(S)
      /\ scanResult.v.v.total_files = Cardinality(S)
      /\ count_files(scanResult.v.v.tree) = Cardinality(S)

\* C4 (amended): every file that is not hidden, not matched by an ignore rule,
\* passes is_source_file and has no excluded and no hidden directory among
\* its ancestors below the root is exactly one leaf of the tree; no other
\* file is a leaf; count_files(tree) is the number of these files.
C4_TreeShowsSourceFiles ==
  ScanOk => TreeShows(ShownFiles(scanReq.v.path, TRUE))

\* A scan whose tree has a source file in a directory, and not the file of
\* the root that is not a source file.
C4_Witness ==
  /\ ScanOk
  /\ scanReq.v.path = ProjRoot
  /\ pluginStore = <<>>
  /\ join(ProjRoot, <<"N", "o", "t", "e", "s", ".", "X", "Y", "Z">>) \in DOMAIN fs
  /\ join(join(ProjRoot, <<"s", "r", "c">>), <<"D", "o", "c", "k", "e", "r", "f", "i", "l", "e">>) \in DOMAIN fs
  /\ scanResult.v.v.total_files = 1

\* C4 as stated: hidden is asked of the file only, so a source file beneath
\* a hidden directory that is not on the denylist is to be a leaf.
C4_AsStated ==
  ScanOk => TreeShows(ShownFiles(scanReq.v.path, FALSE))

\* C5 (as stated): when a pack command has been called twice with the same
\* arguments on the same file system and working tree, the two results have
\* the same content, the order of the diff entries included.
C5_PackDeterministic ==
  (packReq.some /\ packResult.some /\ prevResult.some) =>
    packResult.v.content = prevResult.v.content

\* The number of times the piece of text word occurs in a text.
Pieces(text, word) ==
  SumSeq([i \in DOMAIN text |->
    text[i].times * Cardinality({j \in DOMAIN text[i].toks : text[i].toks[j].w = word})])

\* The pieces of a text in their order, the repetitions of a group once.
PieceSeq(text) == Flatten([i \in DOMAIN text |-> text[i].toks])

\* The pieces that open a file element: an entry or a skip placeholder.
FileOpenings == {"<file path=\"{}\">\n", "<file path=\"{}\" skipped=\"true\""}

\* C6: the XML output of a pack has exactly one <codepack> opening and one
\* </codepack> closing, exactly one <files> opening and one </files> closing,
\* in that nesting, and every file entry and every skip placeholder lies
\* between <files> and </files>; as many of them as there are entries and
\* size skips.
C6_XmlBalanced ==
  (packReq.some /\ packResult.some /\ packReq.v.format = Some("Xml")) =>
    LET text == packResult.v.content
        s == PieceSeq(text)
        at(word) == CHOOSE k \in DOMAIN s : s[k].w = word
    IN  /\ Pieces(text, "<codepack>\n") = 1
        /\ Pieces(text, "</codepack>\n") = 1
        /\ Pieces(text, "<files>\n\n") = 1
        /\ Pieces(text, "</files>\n") = 1
        /\ at("<codepack>\n") < at("<files>\n\n")
        /\ at("<files>\n\n") < at("</files>\n")
        /\ at("</files>\n") < at("</codepack>\n")
        /\ \A k \in DOMAIN s :
             s[k].w \in FileOpenings \cup {"</file>\n\n"} =>
               at("<files>\n\n") < k /\ k < at("</files>\n")
        /\ Pieces(text, "<file path=\"{}\">\n") = packResult.v.file_count
        /\ Pieces(text, "</file>\n\n") = packResult.v.file_count
        /\ Pieces(text, "<file path=\"{}\" skipped=\"true\"")
           = Count(SelectSeq(packResult.v.skipped_files, IsSizeSkip))

\* An XML pack of two paths that are both skipped, one with a placeholder.
C6_Witness ==
  /\ packReq.some /\ packResult.some
  /\ packReq.v.format = Some("Xml")
  /\ packReq.v.paths = <<Run(OverFile, 1), Run(BinFile, 1)>>
  /\ packResult.v.file_count = 0
  /\ Count(packResult.v.skipped_files) = 2
  /\ Pieces(packResult.v.content, "<file path=\"{}\" skipped=\"true\"") = 1

\* The entries of the project root, by name.
InRoot(name) == join(ProjRoot, name) \in DOMAIN fs

DirInRoot(name) == InRoot(name) /\ fs[join(ProjRoot, name)].kind = "dir"

\* A plugin has a rule and the root has everything its rules name.
RulesMet(p) ==
  /\ Len(p.detect_files) + Len(p.detect_dirs) > 0
  /\ \A i \in DOMAIN p.detect_files : InRoot(p.detect_files[i])
  /\ \A i \in DOMAIN p.detect_dirs : DirInRoot(p.detect_dirs[i])

BuiltinLabels ==
  {"Android / Gradle", "Gradle", "Flutter / Dart", "Rust", "Go", "Java / Maven", "Swift",
   "C++ / CMake", "C", "Ruby", "Docker", "Next.js", "Nuxt.js", "Vite", "Python", "Node.js",
   "generic"}

\* C7: the detected label is the name of the first plugin of the list that
\* has a rule and whose rules the root meets, whatever builtin markers the
\* root holds; a plugin without rules is never that plugin; the label is a
\* builtin one only when there is no such plugin.
C7_FirstMatchingPluginWins ==
  detected.some =>
    LET met == {i \in DOMAIN pluginStore : RulesMet(pluginStore[i])}
    IN  IF met # {}
        THEN \E i \in met : /\ \A j \in met : i <= j
                            /\ detected.v = pluginStore[i].name
        ELSE detected.v \in BuiltinLabels

\* The label is that of the second plugin, after one without rules, in a
\* root that also holds Cargo.toml.
C7_Witness ==
  /\ detected = Some("Special")
  /\ pluginStore = <<EmptyPlugin, SpecialPlugin>>
  /\ InRoot(<<"C", "a", "r", "g", "o", ".", "t", "o", "m", "l">>)

\* The builtin rules in their order: whether rule r holds in the root.
NameEndsIn(name, suffix) ==
  Len(name) >= Len(suffix)
  /\ \A k \in 1..Len(suffix) : name[Len(name) - Len(suffix) + k] = suffix[k]

NameBeginsWith(name, prefix) ==
  Len(name) >= Len(prefix) /\ \A k \in 1..Len(prefix) : name[k] = prefix[k]

RootNames == {p[Len(p)] : p \in {q \in DOMAIN fs : Len(q) = Len(ProjRoot) + 1}}

RuleHolds(r) ==
  CASE r = 1 -> InRoot(<<"b", "u", "i", "l", "d", ".", "g", "r", "a", "d", "l", "e", ".", "k", "t", "s">>) \/ InRoot(<<"b", "u", "i", "l", "d", ".", "g", "r", "a", "d", "l", "e">>)
    [] r = 2 -> InRoot(<<"p", "u", "b", "s", "p", "e", "c", ".", "y", "a", "m", "l">>)
    [] r = 3 -> InRoot(<<"C", "a", "r", "g", "o", ".", "t", "o", "m", "l">>)
    [] r = 4 -> InRoot(<<"g", "o", ".", "m", "o", "d">>)
    [] r = 5 -> InRoot(<<"p", "o", "m", ".", "x", "m", "l">>)
    [] r = 6 -> InRoot(<<"P", "a", "c", "k", "a", "g", "e", ".", "s", "w", "i", "f", "t">>)
    [] r = 7 -> InRoot(<<"C", "M", "a", "k", "e", "L", "i", "s", "t", "s", ".", "t", "x", "t">>)
    [] r = 8 -> /\ InRoot(<<"M", "a", "k", "e", "f", "i", "l", "e">>) \/ InRoot(<<"m", "a", "k", "e", "f", "i", "l", "e">>)
                /\ \E n \in RootNames : NameEndsIn(n, <<".", "c">>) \/ NameEndsIn(n, <<".", "h">>)
    [] r = 9 -> InRoot(<<"G", "e", "m", "f", "i", "l", "e">>)
    [] r = 10 -> InRoot(<<"d", "o", "c", "k", "e", "r", "-", "c", "o", "m", "p", "o", "s", "e", ".", "y", "m", "l">>) \/ InRoot(<<"d", "o", "c", "k", "e", "r", "-", "c", "o", "m", "p", "o", "s", "e", ".", "y", "a", "m", "l">>)
    [] r = 11 -> \E n \in RootNames : \/ NameBeginsWith(n, <<"n", "e", "x", "t", ".", "c", "o", "n", "f", "i", "g">>)
                                      \/ NameBeginsWith(n, <<"n", "u", "x", "t", ".", "c", "o", "n", "f", "i", "g">>)
                                      \/ NameBeginsWith(n, <<"v", "i", "t", "e", ".", "c", "o", "n", "f", "i", "g">>)
    [] r = 12 -> \/ InRoot(<<"p", "y", "p", "r", "o", "j", "e", "c", "t", ".", "t", "o", "m", "l">>) \/ InRoot(<<"r", "e", "q", "u", "i", "r", "e", "m", "e", "n", "t", "s", ".", "t", "x", "t">>)
                 \/ InRoot(<<"s", "e", "t", "u", "p", ".", "p", "y">>)
    [] r = 13 -> InRoot(<<"p", "a", "c", "k", "a", "g", "e", ".", "j", "s", "o", "n">>)
    [] r = 14 -> TRUE

\* The labels rule r can return in the root.
RuleLabels(r) ==
  CASE r = 1 -> IF DirInRoot(<<"a", "p", "p">>) \/ InRoot(<<"A", "n", "d", "r", "o", "i", "d", "M", "a", "n", "i", "f", "e", "s", "t", ".", "x", "m", "l">>)
                THEN {"Android / Gradle"} ELSE {"Gradle"}
    [] r = 2 -> {"Flutter / Dart"}
    [] r = 3 -> {"Rust"}
    [] r = 4 -> {"Go"}
    [] r = 5 -> {"Java / Maven"}
    [] r = 6 -> {"Swift"}
    [] r = 7 -> {"C++ / CMake"}
    [] r = 8 -> {"C"}
    [] r = 9 -> {"Ruby"}
    [] r = 10 -> {"Docker"}
    [] r = 11 -> (IF \E n \in RootNames : NameBeginsWith(n, <<"n", "e", "x", "t", ".", "c", "o", "n", "f", "i", "g">>)
                  THEN {"Next.js"} ELSE {})
                 \cup (IF \E n \in RootNames : NameBeginsWith(n, <<"n", "u", "x", "t", ".", "c", "o", "n", "f", "i", "g">>)
                       THEN {"Nuxt.js"} ELSE {})
                 \cup (IF \E n \in RootNames : NameBeginsWith(n, <<"v", "i", "t", "e", ".", "c", "o", "n", "f", "i", "g">>)
                       THEN {"Vite"} ELSE {})
    [] r = 12 -> {"Python"}
    [] r = 13 -> {"Node.js"}
    [] r = 14 -> {"generic"}

\* C8: when no plugin matches, the detected label is that of the first rule
\* that holds in the order Gradle/Android, Flutter, Rust, Go, Maven, Swift,
\* CMake, C, Ruby, Docker, Next/Nuxt/Vite, Python, Node.js, default: a label
\* of a later rule is returned only if no earlier rule holds.
C8_FirstBuiltinRuleWins ==
  (detected.some /\ \A i \in DOMAIN pluginStore : ~RulesMet(pluginStore[i])) =>
    \E r \in 1..14 :
      /\ RuleHolds(r)
      /\ \A q \in 1..(r - 1) : ~RuleHolds(q)
      /\ detected.v \in RuleLabels(r)

\* The label is Vite in a root that holds vite.config.ts, package.json and a
\* Makefile without any .c or .h name beside it.
C8_Witness ==
  /\ detected = Some("Vite")
  /\ InRoot(<<"v", "i", "t", "e", ".", "c", "o", "n", "f", "i", "g", ".", "t", "s">>) /\ InRoot(<<"p", "a", "c", "k", "a", "g", "e", ".", "j", "s", "o", "n">>) /\ InRoot(<<"M", "a", "k", "e", "f", "i", "l", "e">>)

\* C9: when the root a scan command is asked for is not in the file system
\* or is not a directory, the command (scan_directory or
\* scan_directory_async) returns an error and no ScanResult, and it has done
\* nothing but the check: no plugin loading, detection, tree building or
\* metadata extraction, and no progress event.
C9_BadRootFailsFirst ==
  (scanReq.some /\ (scanReq.v.path \notin DOMAIN fs \/ fs[scanReq.v.path].kind # "dir")) =>
    /\ scanResult.some
    /\ ~scanResult.v.ok
    /\ DOMAIN scanResult.v = {"ok", "v"}
    /\ scanResult.v.v = "Path does not exist or is not a directory"
    /\ effects = <<"check">>
    /\ events = <<>>

\* scan_directory_async was asked for a root that is a file, and failed.
C9_Witness ==
  /\ scanReq.some /\ scanReq.v.async
  /\ scanReq.v.path \in DOMAIN fs
  /\ fs[scanReq.v.path].kind = "file"
  /\ scanResult.some /\ ~scanResult.v.ok

PackedScan == ScanOk /\ packReq.some /\ packResult.some

\* C10 (amended): when pack is given the paths of the leaves of a scanned
\* tree, count_files(tree) = file_count + the number of skipped files; the
\* two are equal to file_count exactly when no leaf is skipped.
C10_CountMatchesPackOutcomes ==
  PackedScan =>
    LET tree == scanResult.v.v.tree
        res == packResult.v
    IN  /\ Count(packReq.v.paths) = count_files(tree)
        /\ count_files(tree) = res.file_count + Count(res.skipped_files)
        /\ (count_files(tree) = res.file_count) <=> (res.skipped_files = <<>>)

\* The leaves of a tree of two files were packed: one is in the body, the
\* other was skipped.
C10_Witness ==
  /\ PackedScan
  /\ count_files(scanResult.v.v.tree) = 2
  /\ packResult.v.file_count = 1
  /\ Count(packResult.v.skipped_files) = 1

\* C10 as stated: count_files(tree) = file_count of the pack of its leaves.
C10_AsStated ==
  PackedScan => count_files(scanResult.v.v.tree) = packResult.v.file_count

\* The names the tree overview of a text shows: the overview is the part
\* that opens with the File Tree heading.
OverviewNames(text) ==
  UNION {{text[i].toks[j].p : j \in {k \in DOMAIN text[i].toks : text[i].toks[k].p # <<>>}} :
         i \in {g \in DOMAIN text :
                  text[g].toks[1].w \in {"# File Tree:\n", "## File Tree\n\n'''\n",
                                         "<file_tree>\n"}}}

\* C11 (as stated): after a pack, the tree overview shows the files that
\* were included only: a requested path that has no entry in the body (it
\* was skipped for its size, as binary or unreadable, or for the file cap)
\* has no line in the overview.
C11_OverviewOfIncludedOnly ==
  (packReq.some /\ packResult.some) =>
    \A i \in DOMAIN packReq.v.paths :
      LET p == packReq.v.paths[i].path
      IN  (path_starts_with(p, packReq.v.project_path) /\ EntriesOf(packResult.v.body, p) = 0)
            => <<file_name(p)>> \notin OverviewNames(packResult.v.content)

DiffHeadings ==
  {"# ===== Git Diff (Working Changes) =====\n\n", "## Git Diff (Working Changes)\n\n",
   "<diffs>\n"}

InstructionHeadings ==
  {"# ===== Review Instructions =====\n", "## Review Instructions\n\n", "<instruction>\n"}

\* A text has a token out of a set of words.
HasSection(text, words) ==
  \E i \in DOMAIN text : \E j \in DOMAIN text[i].toks : text[i].toks[j].w \in words

\* C12: an extended pack renders a Git Diff section exactly when diffs were
\* asked for and a requested file has one, and a Review Instructions section
\* exactly when an instruction is given and is not empty; with neither, its
\* PackResult (content, file_count, total_bytes, estimated_tokens,
\* skipped_files) is that of the plain pack with the same arguments; the
\* result of build_pack_content_extended for an empty diff map and an empty
\* instruction is the one it gives when both are absent.
C12_NoExtrasSameAsPlain ==
  (packReq.some /\ packResult.some /\ packReq.v.extended) =>
    LET req == packReq.v
        res == packResult.v
        plain == pack_files(fs, req)
        has_diff == /\ req.include_diff = Some(TRUE)
                    /\ \E i \in DOMAIN req.paths : req.paths[i].path \in DOMAIN WorkingChanges
        has_instruction == req.instruction.some /\ ~req.instruction.v.empty
    IN  /\ HasSection(res.content, DiffHeadings) <=> has_diff
        /\ HasSection(res.content, InstructionHeadings) <=> has_instruction
        /\ (~has_diff /\ ~has_instruction) => res = plain
        /\ (req.include_diff = None /\ req.instruction = None) =>
             build_pack_content_extended(fs, req.paths, req.project_path,
                                         req.project_type, format_of(req.format),
                                         req.max_file_bytes, Some(<<>>), <<>>,
                                         Some([empty |-> TRUE, nl |-> FALSE]))
             = res

\* An extended pack of a file without a diff, with diffs asked for and an
\* empty instruction.
C12_Witness ==
  /\ packReq.some /\ packResult.some /\ packReq.v.extended
  /\ packReq.v.include_diff = Some(TRUE)
  /\ packReq.v.instruction = Some([empty |-> TRUE, nl |-> FALSE])
  /\ packReq.v.paths = <<Run(BigFile, 1)>>
  /\ packResult.v.file_count = 1

\* C13: in the tree a scan returns, every directory node other than the root
\* has at least one child and at least one file node beneath it, and every
\* file node has no children.
C13_NoEmptyDirectories ==
  ScanOk =>
    \A node \in tree_nodes(scanResult.v.v.tree) :
      /\ (node.is_dir /\ node.path # scanReq.v.path)
           => (node.children # <<>> /\ count_files(node) >= 1)
      /\ ~node.is_dir => node.children = <<>>

\* A scan of a root where src holds main.rs and an empty directory: the tree
\* has a node for src and none for the directory inside it.
C13_Witness ==
  /\ ScanOk
  /\ scanReq.v.path = ProjRoot
  /\ join(join(ProjRoot, <<"s", "r", "c">>), <<"m", "a", "i", "n", ".", "r", "s">>) \in DOMAIN fs
  /\ join(join(ProjRoot, <<"s", "r", "c">>), <<"s", "r", "c">>) \in DOMAIN fs
  /\ \E node \in tree_nodes(scanResult.v.v.tree) :
       node.is_dir /\ node.path = join(ProjRoot, <<"s", "r", "c">>) /\ Len(node.children) = 1

\* The children of a node are in order: no file before a directory, and among
\* the directories and among the files no name before one that is smaller
\* once both are lowercased.
ChildrenInOrder(children) ==
  \A i, j \in DOMAIN children :
    i < j =>
      LET a == children[i]
          b == children[j]
      IN  /\ ~(~a.is_dir /\ b.is_dir)
          /\ a.is_dir = b.is_dir => ~StrLess(to_lowercase(b.name), to_lowercase(a.name))

\* C14: in the tree a scan returns, at every directory node the children are
\* the directories first and the files after them, each group in
\* non-decreasing order of the lowercased name.
C14_ChildrenSorted ==
  ScanOk =>
    \A node \in tree_nodes(scanResult.v.v.tree) : ChildrenInOrder(node.children)

\* A scan of a root that holds Dockerfile, main.rs and Notes.XYZ: main.rs
\* comes before Notes.XYZ, though "N" is before "m" in byte order.
C14_Witness ==
  /\ ScanOk
  /\ LET children == scanResult.v.v.tree.children
     IN  /\ Len(children) = 3
         /\ children[1].name = <<"D", "o", "c", "k", "e", "r", "f", "i", "l", "e">>
         /\ children[2].name = <<"m", "a", "i", "n", ".", "r", "s">>
         /\ children[3].name = <<"N", "o", "t", "e", "s", ".", "X", "Y", "Z">>

CargoPath == join(ProjRoot, <<"C", "a", "r", "g", "o", ".", "t", "o", "m", "l">>)

\* The root holds a Cargo.toml that can be read and is TOML.
CargoParsed ==
  /\ CargoPath \in DOMAIN fs
  /\ fs[CargoPath].utf8
  /\ fs[CargoPath].toml.ok

\* The entries of the table a document has under a key: none when the key is
\* missing or its value is not a table.
TableUnder(key) ==
  LET t == as_table(toml_get(fs[CargoPath].toml.v, key))
  IN  IF t.some THEN t.v.entries ELSE <<>>

Elements(s) == {s[i] : i \in DOMAIN s}

\* The version the requirement of a dependency gives: the value itself when
\* it is a string, the version of a table when that is a string, "*" for
\* everything else.
RequiredVersion(val) ==
  IF val.kind = "string" THEN val.s
  ELSE IF /\ val.kind = "table"
          /\ \E i \in DOMAIN val.entries :
               val.entries[i].key = <<"v", "e", "r", "s", "i", "o", "n">> /\ val.entries[i].val.kind = "string"
  THEN val.entries[CHOOSE i \in DOMAIN val.entries : val.entries[i].key = <<"v", "e", "r", "s", "i", "o", "n">>].val.s
  ELSE <<"*">>

\* C15: for the label "Rust" and a Cargo.toml that parses, every key k of
\* [dependencies] is in dependencies and has exactly one entry k@v in
\* requirements, v being the string value, the string version of a table, or
\* "*"; dependencies and requirements are as long as the table; the keys of
\* [dev-dependencies] make up dev_dependencies and add nothing to
\* dependencies and requirements.
C15_CargoDependenciesListed ==
  (ScanOk /\ scanResult.v.v.project_type = "Rust" /\ CargoParsed) =>
    LET meta == scanResult.v.v.metadata
        deps == TableUnder(<<"d", "e", "p", "e", "n", "d", "e", "n", "c", "i", "e", "s">>)
        dev_deps == TableUnder(<<"d", "e", "v", "-", "d", "e", "p", "e", "n", "d", "e", "n", "c", "i", "e", "s">>)
    IN  /\ Len(meta.dependencies) = Len(deps)
        /\ Len(meta.requirements) = Len(deps)
        /\ \A i \in DOMAIN deps :
             /\ deps[i].key \in Elements(meta.dependencies)
             /\ Cardinality({j \in DOMAIN meta.requirements :
                   meta.requirements[j]
                   = deps[i].key \o <<"@">> \o RequiredVersion(deps[i].val)}) = 1
        /\ Elements(meta.dev_dependencies) = {dev_deps[i].key : i \in DOMAIN dev_deps}
        /\ Len(meta.dev_dependencies) = Len(dev_deps)
        /\ Elements(meta.dependencies) = {deps[i].key : i \in DOMAIN deps}

\* A Rust root whose Cargo.toml has a dependency with a version string and
\* one that is a table without a version, and serde among the
\* dev-dependencies as well.
C15_Witness ==
  /\ ScanOk /\ scanResult.v.v.project_type = "Rust" /\ CargoParsed
  /\ Len(TableUnder(<<"d", "e", "v", "-", "d", "e", "p", "e", "n", "d", "e", "n", "c", "i", "e", "s">>)) = 2
  /\ scanResult.v.v.metadata.dependencies = <<<<"s", "e", "r", "d", "e">>, <<"t", "o", "k", "i", "o">>>>
  /\ scanResult.v.v.metadata.requirements = <<<<"s", "e", "r", "d", "e", "@", "1">>, <<"t", "o", "k", "i", "o", "@", "*">>>>

ReaderLabels ==
  {"Node.js", "Next.js", "Vite", "Nuxt.js", "Python", "Rust", "Go", "Flutter / Dart",
   "Java / Maven", "Android / Gradle", "Gradle"}

\* C16: for a label that has no reader the metadata of a scan is the name of
\* the root directory and the label; version, description and entry_point
\* are absent and the four lists are empty, whatever the root holds.
C16_NoReaderNoFields ==
  (ScanOk /\ scanResult.v.v.project_type \notin ReaderLabels) =>
    scanResult.v.v.metadata
    = [name |-> file_name(scanReq.v.path),
       project_type |-> scanResult.v.v.project_type,
       version |-> None, description |-> None,
       dependencies |-> <<>>, dev_dependencies |-> <<>>,
       entry_point |-> None, runtime |-> <<>>, requirements |-> <<>>]

\* A plugin gave the label to a root that holds a Cargo.toml with a package
\* and dependencies.
C16_Witness ==
  /\ ScanOk /\ scanResult.v.v.project_type = "Special" /\ CargoParsed
  /\ Len(TableUnder(<<"p", "a", "c", "k", "a", "g", "e">>)) > 0
  /\ Len(TableUnder(<<"d", "e", "p", "e", "n", "d", "e", "n", "c", "i", "e", "s">>)) = 2

\* C17: a pack always returns a result; a requested path that is not there
\* has size 0, is never skipped for its size and has no entry and no
\* placeholder in the body: each of its occurrences is one SkippedFile with
\* the reason "binary or unreadable file" and size_bytes 0.
C17_MissingPathIsUnreadable ==
  packReq.some =>
    /\ packResult.some
    /\ \A i \in DOMAIN packReq.v.paths :
         LET p == packReq.v.paths[i].path
             rel == RelativeTo(packReq.v.project_path, p)
             res == packResult.v
         IN  p \notin DOMAIN fs =>
               /\ EntriesOf(res.body, p) = 0
               /\ \A g \in DOMAIN res.body :
                    \A j \in DOMAIN res.body[g].toks : res.body[g].toks[j].p # rel
               /\ SkipsOf(res.skipped_files, rel) = Occurrences(packReq.v.paths, p)
               /\ \A j \in DOMAIN res.skipped_files :
                    res.skipped_files[j].path = rel =>
                      /\ res.skipped_files[j].reason = binary_reason
                      /\ res.skipped_files[j].size_bytes = 0

\* A pack of a file and a path that is not there: one file is included and
\* the other path is in skipped_files.
C17_Witness ==
  /\ packReq.some /\ packResult.some
  /\ packReq.v.paths = <<Run(SmallFile, 1), Run(GoneFile, 1)>>
  /\ packResult.v.file_count = 1
  /\ Count(packResult.v.skipped_files) = 1

\* C18 (as stated): in the content of an XML pack the footer comes last: the
\* Git Diff and Review Instructions sections are before the closing
\* </files> and </codepack>, and nothing follows the close of the root
\* element.
C18_FooterIsLast ==
  (packReq.some /\ packResult.some /\ format_of(packReq.v.format) = "Xml") =>
    LET content == packResult.v.content
        last == content[Len(content)].toks
    IN  /\ Len(last) >= 2
        /\ last[Len(last) - 1].w = "</files>\n"
        /\ last[Len(last)].w = "</codepack>\n"

\* The state of the loop of a pack after the first k runs of its path list.
LoopAfter(req, k) ==
  pack_loop(fs, req.project_path, format_of(req.format), ActiveLimit(req),
            SubSeq(req.paths, 1, k),
            [body |-> <<>>, file_count |-> 0, total_bytes |-> 0, skipped_files |-> <<>>])

\* C19: at every point of the loop and in the result, file_count is at most
\* MAX_FILE_COUNT; a path met when file_count is MAX_FILE_COUNT that is not
\* over the size limit and can be read as text is recorded as a SkippedFile
\* with the reason "exceeds 5000 file limit" and leaves body, total_bytes
\* and file_count as they are.
C19_FileCountCapped ==
  (packReq.some /\ packResult.some) =>
    LET req == packReq.v
        res == packResult.v
        final == LoopAfter(req, Len(req.paths))
    IN  /\ res.file_count <= 5000
        /\ res.file_count = final.file_count /\ res.body = final.body
        /\ res.total_bytes = final.total_bytes /\ res.skipped_files = final.skipped_files
        /\ \A k \in DOMAIN req.paths :
             LET before == LoopAfter(req, k - 1)
                 after == LoopAfter(req, k)
                 p == req.paths[k].path
             IN  /\ after.file_count <= 5000
                 /\ (/\ before.file_count = 5000
                     /\ p \in DOMAIN fs /\ fs[p].kind = "file" /\ fs[p].utf8
                     /\ fs[p].size <= ActiveLimit(req))
                    => /\ after.body = before.body
                       /\ after.total_bytes = before.total_bytes
                       /\ after.file_count = before.file_count
                       /\ after.skipped_files
                          = before.skipped_files
                            \o <<SkippedFile(RelativeTo(req.project_path, p),
                                             <<Tok("exceeds"), TokN("{}", 5000), Tok("file"),
                                               Tok("limit")>>,
                                             fs[p].size, req.paths[k].times)>>

\* MAX_FILE_COUNT files are included and the text that follows them is
\* skipped for the file count.
C19_Witness ==
  /\ packReq.some /\ packResult.some
  /\ packReq.v.paths = <<Run(SmallFile, MAX_FILE_COUNT), Run(EdgeFile, 1)>>
  /\ packResult.v.file_count = MAX_FILE_COUNT
  /\ packResult.v.skipped_files
     = <<SkippedFile(<<<<"e", "d", "g", "e", ".", "r", "s">>>>, count_reason, 100, 1)>>

\* The skip records a step of the loop added, and the part of the body it
\* added.
AddedSkips(before, after) ==
  SubSeq(after.skipped_files, Len(before.skipped_files) + 1, Len(after.skipped_files))

AddedBody(before, after) == SubSeq(after.body, Len(before.body) + 1, Len(after.body))

\* C20: for every path the size is tested first, the decoding second and the
\* file count last, and the skip record has the reason of the first test
\* that fails: a path over the size limit is a size skip whether or not it
\* can be read and whatever the file count is, and a path within the limit
\* that cannot be read is "binary or unreadable file" even when file_count
\* is MAX_FILE_COUNT.  A size skip adds a placeholder for the path to the
\* body, and no file entry; the other skips add nothing to the body.
C20_FirstFailingCheckDecides ==
  (packReq.some /\ packResult.some) =>
    LET req == packReq.v
        res == packResult.v
        final == LoopAfter(req, Len(req.paths))
    IN  /\ res.skipped_files = final.skipped_files /\ res.body = final.body
        /\ \A k \in DOMAIN req.paths :
             LET before == LoopAfter(req, k - 1)
                 after == LoopAfter(req, k)
                 p == req.paths[k].path
                 rel == RelativeTo(req.project_path, p)
                 readable == p \in DOMAIN fs /\ fs[p].kind = "file" /\ fs[p].utf8
                 skips == AddedSkips(before, after)
                 added == AddedBody(before, after)
             IN  IF StatSize(p) > ActiveLimit(req)
                 THEN /\ Len(skips) = 1 /\ IsSizeSkip(skips[1]) /\ skips[1].path = rel
                      /\ Len(added) = 1 /\ added[1].times = req.paths[k].times
                      /\ \E j \in DOMAIN added[1].toks : added[1].toks[j].p = rel
                      /\ RenderedEntries(added) = 0
                 ELSE IF ~readable
                 THEN /\ Len(skips) = 1 /\ skips[1].reason = binary_reason
                      /\ skips[1].path = rel
                      /\ added = <<>>
                 ELSE /\ \A j \in DOMAIN skips : skips[j].reason = count_reason
                      /\ Count(skips) + RenderedEntries(added) = req.paths[k].times
                      /\ Count(skips) > 0 => after.file_count = MAX_FILE_COUNT
                      /\ \A g \in DOMAIN added :
                           \E j \in DOMAIN added[g].toks : added[g].toks[j].w = "content"

\* After MAX_FILE_COUNT included files comes a file within the size limit
\* that is not UTF-8: it is skipped as binary or unreadable.
C20_Witness ==
  /\ packReq.some /\ packResult.some
  /\ packReq.v.paths = <<Run(SmallFile, MAX_FILE_COUNT), Run(BinFile, 1)>>
  /\ packReq.v.max_file_bytes = None
  /\ packResult.v.file_count = MAX_FILE_COUNT
  /\ packResult.v.skipped_files = <<SkippedFile(<<<<"b", "i", "n", ".", "d", "a", "t">>>>, binary_reason, 150, 1)>>

\* The estimates a text prints: the numbers of its tokens written by
\* format_tokens.
PrintedEstimates(toks) ==
  {toks[j].n : j \in {k \in DOMAIN toks : toks[k].w \in {"{:.0}", "{:.1}K", "{:.1}M"}}}

\* C21: estimated_tokens of a pack is the token count of the body alone when
\* no Git Diff and no Review Instructions section was appended, and the
\* token count of the whole content when one was; the header prints the
\* count of the body in both cases.
C21_EstimateOfBodyOrContent ==
  (packReq.some /\ packResult.some) =>
    LET res == packResult.v
        of_body == encode_ordinary_len(res.body)
        appended == \/ HasSection(res.content, DiffHeadings)
                    \/ HasSection(res.content, InstructionHeadings)
    IN  /\ res.estimated_tokens
           = IF appended THEN encode_ordinary_len(res.content) ELSE of_body
        /\ appended => res.estimated_tokens > of_body
        /\ PrintedEstimates(res.content[1].toks) = {of_body}

\* An extended pack of one file with an instruction: the estimate counts
\* more than the body.
C21_Witness ==
  /\ packReq.some /\ packResult.some /\ packReq.v.extended
  /\ packReq.v.instruction = Some([empty |-> FALSE, nl |-> FALSE])
  /\ packResult.v.file_count = 1
  /\ packResult.v.estimated_tokens > encode_ordinary_len(packResult.v.body)
  /\ encode_ordinary_len(packResult.v.body) > 0

Label == scanResult.v.v.project_type

Metadata == scanResult.v.v.metadata

\* The root holds a file of this name that can be read as text.
Readable(name) ==
  /\ join(ProjRoot, name) \in DOMAIN fs
  /\ fs[join(ProjRoot, name)].kind = "file" /\ fs[join(ProjRoot, name)].utf8

\* The target tsconfig.json gives: it is there, is JSON, and
\* compilerOptions.target is a string.
TsTarget ==
  IF Readable(<<"t", "s", "c", "o", "n", "f", "i", "g", ".", "j", "s", "o", "n">>) /\ fs[join(ProjRoot, <<"t", "s", "c", "o", "n", "f", "i", "g", ".", "j", "s", "o", "n">>)].json.ok
  THEN LET options == toml_get(fs[join(ProjRoot, <<"t", "s", "c", "o", "n", "f", "i", "g", ".", "j", "s", "o", "n">>)].json.v,
                               <<"c", "o", "m", "p", "i", "l", "e", "r", "O", "p", "t", "i", "o", "n", "s">>)
       IN  IF options.some THEN as_str(toml_get(options.v, <<"t", "a", "r", "g", "e", "t">>)) ELSE None
  ELSE None

\* C22 (as stated): for a Node.js, Next.js, Vite or Nuxt.js root whose
\* tsconfig.json parses and has a string compilerOptions.target, the last
\* entry of runtime is "ts target: " and the target, whether or not
\* package.json is there and parses.
C22_TsTargetAlwaysProbed ==
  (ScanOk /\ Label \in {"Node.js", "Next.js", "Vite", "Nuxt.js"} /\ TsTarget.some) =>
    /\ Metadata.runtime # <<>>
    /\ Metadata.runtime[Len(Metadata.runtime)] = <<"t", "s", " ", "t", "a", "r", "g", "e", "t", ":", " ">> \o TsTarget.v

\* The numbers of a set, ascending.
Ascending(S) ==
  CHOOSE s \in [1..Cardinality(S) -> S] : \A i, j \in 1..Cardinality(S) : i < j => s[i] < s[j]

\* The lines of a text file of the root, each trimmed; none if it cannot be
\* read.
TrimmedLines(name) ==
  IF Readable(name)
  THEN [i \in DOMAIN fs[join(ProjRoot, name)].lines |-> trim(fs[join(ProjRoot, name)].lines[i])]
  ELSE <<>>

\* The strings of the array [project].dependencies of pyproject.toml, none
\* when the file, the table or the array is not there.
PyProjectDependencies ==
  LET path == join(ProjRoot, <<"p", "y", "p", "r", "o", "j", "e", "c", "t", ".", "t", "o", "m", "l">>)
      project == IF Readable(<<"p", "y", "p", "r", "o", "j", "e", "c", "t", ".", "t", "o", "m", "l">>) /\ fs[path].toml.ok
                 THEN toml_get(fs[path].toml.v, <<"p", "r", "o", "j", "e", "c", "t">>) ELSE None
      deps == IF project.some /\ project.v.kind = "table"
              THEN toml_get(project.v, <<"d", "e", "p", "e", "n", "d", "e", "n", "c", "i", "e", "s">>) ELSE None
  IN  IF deps.some /\ deps.v.kind = "array"
      THEN SelectSeq(deps.v.entries, LAMBDA v : v.kind = "string")
      ELSE <<>>

\* The lines of requirements.txt that count: not blank after trimming, not
\* starting with "#" or "-".
RequirementLines ==
  LET t == TrimmedLines(<<"r", "e", "q", "u", "i", "r", "e", "m", "e", "n", "t", "s", ".", "t", "x", "t">>)
  IN  {i \in DOMAIN t : t[i] # <<>> /\ t[i][1] \notin {"#", "-"}}

\* The text before the first of > < = ~ ! ; [ of a line, trimmed.
NameBefore(l) ==
  LET marks == {">", "<", "=", "~", "!", ";", "["}
      k == CHOOSE k \in 0..Len(l) : /\ \A i \in 1..k : l[i] \notin marks
                                    /\ k = Len(l) \/ l[k + 1] \in marks
  IN  trim(SubSeq(l, 1, k))

PythonScanned == ScanOk /\ Label = "Python"

\* C23: for a Python root, requirements.txt gives nothing when
\* [project].dependencies of pyproject.toml gave a dependency; otherwise the
\* dependencies are the names (the text before the first of > < = ~ ! ; [,
\* trimmed) and the requirements the trimmed lines of exactly the lines of
\* requirements.txt that are not blank and do not start with "#" or "-", in
\* file order.
C23_RequirementsFallback ==
  PythonScanned =>
    LET t == TrimmedLines(<<"r", "e", "q", "u", "i", "r", "e", "m", "e", "n", "t", "s", ".", "t", "x", "t">>)
        counted == Ascending(RequirementLines)
        declared == PyProjectDependencies
    IN  IF declared # <<>>
        THEN /\ Metadata.dependencies = [n \in DOMAIN declared |-> NameBefore(declared[n].s)]
             /\ Metadata.requirements = [n \in DOMAIN declared |-> trim(declared[n].s)]
        ELSE /\ Metadata.dependencies = [n \in DOMAIN counted |-> NameBefore(t[counted[n]])]
             /\ Metadata.requirements = [n \in DOMAIN counted |-> t[counted[n]]]

\* A requirements.txt with an option, a requirement and a comment is read
\* because pyproject.toml names no dependency.
C23_Witness ==
  /\ PythonScanned
  /\ Readable(<<"p", "y", "p", "r", "o", "j", "e", "c", "t", ".", "t", "o", "m", "l">>) /\ PyProjectDependencies = <<>>
  /\ LET t == TrimmedLines(<<"r", "e", "q", "u", "i", "r", "e", "m", "e", "n", "t", "s", ".", "t", "x", "t">>)
     IN  /\ Len(t) = 3
         /\ t[1] = <<"-", "r", " ", "b", "a", "s", "e", ".", "t", "x", "t">>
         /\ t[2] = <<"u", "v", "i", "c", "o", "r", "n", "[", "s", "t", "a", "n", "d", "a", "r", "d", "]", " ", "~", "=", " ", "0", ".", "2">>
         /\ t[3] = <<"#", " ", "p", "i", "n", "n", "e", "d">>
  /\ Metadata.dependencies = <<<<"u", "v", "i", "c", "o", "r", "n">>>>
  /\ Metadata.requirements = <<<<"u", "v", "i", "c", "o", "r", "n", "[", "s", "t", "a", "n", "d", "a", "r", "d", "]", " ", "~", "=", " ", "0", ".", "2">>>>

\* A requirements.txt with a requirement is not read because pyproject.toml
\* names dependencies.
C23_WitnessNotRead ==
  /\ PythonScanned
  /\ PyProjectDependencies # <<>>
  /\ RequirementLines # {}
  /\ Len(Metadata.dependencies) = Len(PyProjectDependencies)

\* Line i of go.mod is read inside a require block: an earlier line is
\* "require (" and no line between the two is ")".
InRequireBlock(i) ==
  LET t == TrimmedLines(<<"g", "o", ".", "m", "o", "d">>)
  IN  \E j \in 1..(i - 1) : t[j] = <<"r", "e", "q", "u", "i", "r", "e", " ", "(">> /\ \A k \in (j + 1)..(i - 1) : t[k] # <<")">>

\* The lines of go.mod inside a require block that are not blank, not a
\* comment, and neither open nor close a block.
GoEntryLines ==
  LET t == TrimmedLines(<<"g", "o", ".", "m", "o", "d">>)
  IN  {i \in DOMAIN t : /\ InRequireBlock(i)
                        /\ t[i] \notin {<<>>, <<"r", "e", "q", "u", "i", "r", "e", " ", "(">>, <<")">>}
                        /\ ~starts_with(t[i], <<"/", "/">>)}

\* The first word of a trimmed, non-blank line: up to its first blank.
FirstWord(l) ==
  LET white == {i \in DOMAIN l : l[i] \in {" ", "\t"}}
  IN  IF white = {} THEN l ELSE SubSeq(l, 1, (CHOOSE i \in white : \A j \in white : i <= j) - 1)

\* The first two words of a line joined with "@".
FirstTwoWords(l) ==
  LET rest == trim(SubSeq(l, Len(FirstWord(l)) + 1, Len(l)))
  IN  FirstWord(l) \o <<"@">> \o FirstWord(rest)

GoScanned == ScanOk /\ Label = "Go" /\ Readable(<<"g", "o", ".", "m", "o", "d">>)

\* C24: for a Go root, the dependencies are the first words of the lines of
\* go.mod read inside a require block (entered at "require (", left at ")")
\* that are not blank and not comments, in file order; the requirements are
\* the first two words joined with "@" of those of these lines that have two
\* words; lines outside a block give nothing.
C24_RequireBlockOnly ==
  GoScanned =>
    LET t == TrimmedLines(<<"g", "o", ".", "m", "o", "d">>)
        entries == Ascending(GoEntryLines)
        pairs == Ascending({i \in GoEntryLines : Len(split_whitespace(t[i])) >= 2})
    IN  /\ Metadata.dependencies = [n \in DOMAIN entries |-> FirstWord(t[entries[n]])]
        /\ Metadata.requirements = [n \in DOMAIN pairs |-> FirstTwoWords(t[pairs[n]])]

\* A go.mod with a single-line require outside the block, an entry inside
\* it and a line after it.
C24_Witness ==
  /\ GoScanned
  /\ LET t == TrimmedLines(<<"g", "o", ".", "m", "o", "d">>)
     IN  /\ Len(t) = 3
         /\ t[1] = <<"r", "e", "q", "u", "i", "r", "e", " ", "(">>
         /\ t[2] = <<"g", "i", "n", " ", "v", "1", ".", "9", ".", "1", " ", "/", "/", " ", "i", "n", "d", "i", "r", "e", "c", "t">>
         /\ t[3] = <<")">>
  /\ Metadata.dependencies = <<<<"g", "i", "n">>>>
  /\ Metadata.requirements = <<<<"g", "i", "n", "@", "v", "1", ".", "9", ".", "1">>>>

\* C24 (as stated): every such line gives a dependency and a requirement.
C24_AsStated ==
  GoScanned =>
    Len(Metadata.requirements) = Cardinality(GoEntryLines)

\* The indented lines of pubspec.yaml with a colon whose most recent
\* unindented line is, trimmed, the opener.
PubspecLinesUnder(opener) ==
  LET lines == IF Readable(<<"p", "u", "b", "s", "p", "e", "c", ".", "y", "a", "m", "l">>) THEN fs[join(ProjRoot, <<"p", "u", "b", "s", "p", "e", "c", ".", "y", "a", "m", "l">>)].lines
               ELSE <<>>
      Indented(i) == lines[i] # <<>> /\ lines[i][1] \in {" ", "\t"}
  IN  {i \in DOMAIN lines :
         /\ Indented(i)
         /\ \E c \in DOMAIN lines[i] : lines[i][c] = ":"
         /\ \E j \in 1..(i - 1) : /\ ~Indented(j)
                                  /\ trim(lines[j]) = opener
                                  /\ \A k \in (j + 1)..(i - 1) : Indented(k)}

\* The key and the value of line i of pubspec.yaml.
PubspecKey(i) == trim(splitn_colon(fs[join(ProjRoot, <<"p", "u", "b", "s", "p", "e", "c", ".", "y", "a", "m", "l">>)].lines[i])[1])

PubspecValue(i) == unquoted(splitn_colon(fs[join(ProjRoot, <<"p", "u", "b", "s", "p", "e", "c", ".", "y", "a", "m", "l">>)].lines[i])[2])

DartScanned == ScanOk /\ Label = "Flutter / Dart"

\* C25: for a Flutter / Dart root, an indented "key: value" line of
\* pubspec.yaml counts for the block that the most recent unindented line
\* opened, and for none when that line (a blank line and a comment in the
\* first column included) opens none: the dependencies are the keys other
\* than sdk of the lines under "dependencies:", the requirements "key@value"
\* for those of them whose value is not empty and not "^", the
\* dev_dependencies the keys other than sdk of the lines under
\* "dev_dependencies:", the runtime entries come from the lines under
\* "environment:", and no line counts twice.
C25_OneBlockAtATime ==
  DartScanned =>
    LET Named(S) == Ascending({i \in S : PubspecKey(i) \notin {<<>>, <<"s", "d", "k">>}})
        deps == Named(PubspecLinesUnder(<<"d", "e", "p", "e", "n", "d", "e", "n", "c", "i", "e", "s", ":">>))
        versioned == Ascending({i \in PubspecLinesUnder(<<"d", "e", "p", "e", "n", "d", "e", "n", "c", "i", "e", "s", ":">>) :
                                  /\ PubspecKey(i) \notin {<<>>, <<"s", "d", "k">>}
                                  /\ PubspecValue(i) \notin {<<>>, <<"^">>}})
        devs == Named(PubspecLinesUnder(<<"d", "e", "v", "_", "d", "e", "p", "e", "n", "d", "e", "n", "c", "i", "e", "s", ":">>))
        envs == Ascending({i \in PubspecLinesUnder(<<"e", "n", "v", "i", "r", "o", "n", "m", "e", "n", "t", ":">>) : PubspecValue(i) # <<>>})
    IN  /\ Metadata.dependencies = [n \in DOMAIN deps |-> PubspecKey(deps[n])]
        /\ Metadata.requirements =
             [n \in DOMAIN versioned |->
                PubspecKey(versioned[n]) \o <<"@">> \o PubspecValue(versioned[n])]
        /\ Metadata.dev_dependencies = [n \in DOMAIN devs |-> PubspecKey(devs[n])]
        /\ Metadata.runtime =
             [n \in DOMAIN envs |-> PubspecKey(envs[n]) \o <<" ">> \o PubspecValue(envs[n])]
        /\ PubspecLinesUnder(<<"d", "e", "p", "e", "n", "d", "e", "n", "c", "i", "e", "s", ":">>) \cap PubspecLinesUnder(<<"d", "e", "v", "_", "d", "e", "p", "e", "n", "d", "e", "n", "c", "i", "e", "s", ":">>) = {}

\* Two entries under "dependencies:", one with a quoted version and one with
\* the value "^".
C25_Witness ==
  /\ DartScanned
  /\ Readable(<<"p", "u", "b", "s", "p", "e", "c", ".", "y", "a", "m", "l">>)
  /\ LET lines == fs[join(ProjRoot, <<"p", "u", "b", "s", "p", "e", "c", ".", "y", "a", "m", "l">>)].lines
     IN  /\ Len(lines) = 3
         /\ lines[1] = <<"d", "e", "p", "e", "n", "d", "e", "n", "c", "i", "e", "s", ":">>
         /\ lines[2] = <<" ", " ", "h", "t", "t", "p", ":", " ">> \o <<"\"">> \o <<"^", "1", ".", "0">> \o <<"\"">>
         /\ lines[3] = <<" ", " ", "p", "a", "t", "h", ":", " ", "^">>
  /\ Metadata.dependencies = <<<<"h", "t", "t", "p">>, <<"p", "a", "t", "h">>>>
  /\ Metadata.requirements = <<<<"h", "t", "t", "p", "@", "^", "1", ".", "0">>>>
  /\ Metadata.dev_dependencies = <<>>

\* The entry after a blank line counts for no block.
C25_WitnessReset ==
  /\ DartScanned
  /\ Readable(<<"p", "u", "b", "s", "p", "e", "c", ".", "y", "a", "m", "l">>)
  /\ LET lines == fs[join(ProjRoot, <<"p", "u", "b", "s", "p", "e", "c", ".", "y", "a", "m", "l">>)].lines
     IN  /\ Len(lines) = 3
         /\ lines[1] = <<"d", "e", "p", "e", "n", "d", "e", "n", "c", "i", "e", "s", ":">>
         /\ lines[2] = <<>>
         /\ lines[3] = <<" ", " ", "p", "a", "t", "h", ":", " ", "^">>
  /\ Metadata.dependencies = <<>>

\* An entry under "dev_dependencies:" goes to dev_dependencies only.
C25_WitnessDev ==
  /\ DartScanned
  /\ Readable(<<"p", "u", "b", "s", "p", "e", "c", ".", "y", "a", "m", "l">>)
  /\ LET lines == fs[join(ProjRoot, <<"p", "u", "b", "s", "p", "e", "c", ".", "y", "a", "m", "l">>)].lines
     IN  /\ Len(lines) = 3
         /\ lines[1] = <<"d", "e", "v", "_", "d", "e", "p", "e", "n", "d", "e", "n", "c", "i", "e", "s", ":">>
         /\ lines[2] = <<" ", " ", "f", "l", "u", "t", "t", "e", "r", ":">>
         /\ lines[3] = <<"\t">> \o <<"s", "d", "k", ":", " ", "f", "l", "u", "t", "t", "e", "r">>
  /\ Metadata.dev_dependencies = <<<<"f", "l", "u", "t", "t", "e", "r">>>>
  /\ Metadata.dependencies = <<>>

\* Line i of pom.xml is read inside a <dependencies> block: a line up to it
\* opens one, and no line from that one to it closes one.
InDependencies(i) ==
  LET t == TrimmedLines(<<"p", "o", "m", ".", "x", "m", "l">>)
  IN  \E j \in 1..i : /\ contains(t[j], <<"<", "d", "e", "p", "e", "n", "d", "e", "n", "c", "i", "e", "s", ">">>)
                      /\ \A k \in j..i : ~contains(t[k], <<"<", "/", "d", "e", "p", "e", "n", "d", "e", "n", "c", "i", "e", "s", ">">>)

\* What the lines after `from` up to line i that are read inside the block
\* give for a tag: the value of the last of them that has it, nothing when
\* none has.
PomValue(from, i, name) ==
  LET t == TrimmedLines(<<"p", "o", "m", ".", "x", "m", "l">>)
      having == {k \in (from + 1)..i : InDependencies(k) /\ extract_xml_tag(t[k], name).some}
  IN  IF having = {} THEN <<>>
      ELSE extract_xml_tag(t[CHOOSE k \in having : \A l \in having : l <= k], name).v

\* The requirement for the dependency that ends at line i and began after
\* line `from`.
PomRequirement(from, i) ==
  LET group == PomValue(from, i, <<"g", "r", "o", "u", "p", "I", "d">>)
      artifact == PomValue(from, i, <<"a", "r", "t", "i", "f", "a", "c", "t", "I", "d">>)
      version == PomValue(from, i, <<"v", "e", "r", "s", "i", "o", "n">>)
  IN  IF version # <<>> THEN group \o <<":">> \o artifact \o <<":">> \o version
      ELSE group \o <<":">> \o artifact

\* The last line before line i among the given ones, 0 when there is none.
LastBefore(S, i) ==
  IF \E k \in S : k < i THEN CHOOSE k \in S : k < i /\ \A l \in S : l < i => l <= k ELSE 0

MavenScanned == ScanOk /\ Label = "Java / Maven" /\ Readable(<<"p", "o", "m", ".", "x", "m", "l">>)

\* C26 (as stated): for a Java / Maven root, every line of pom.xml that is
\* read inside a <dependencies> block and contains </dependency> gives,
\* when an artifactId was seen for its dependency, that artifactId as a
\* dependency and "group:artifact:version" (or "group:artifact") as a
\* requirement, made of what was seen for this dependency only, that is
\* since the line with the previous </dependency>.
C26_NoLeakBetweenDependencies ==
  MavenScanned =>
    LET t == TrimmedLines(<<"p", "o", "m", ".", "x", "m", "l">>)
        ends == {i \in DOMAIN t : contains(t[i], <<"<", "/", "d", "e", "p", "e", "n", "d", "e", "n", "c", "y", ">">>)}
        emitting == Ascending({i \in ends : /\ InDependencies(i)
                                            /\ PomValue(LastBefore(ends, i), i, <<"a", "r", "t", "i", "f", "a", "c", "t", "I", "d">>) # <<>>})
    IN  /\ Metadata.dependencies =
             [n \in DOMAIN emitting |->
                PomValue(LastBefore(ends, emitting[n]), emitting[n], <<"a", "r", "t", "i", "f", "a", "c", "t", "I", "d">>)]
        /\ Metadata.requirements =
             [n \in DOMAIN emitting |->
                PomRequirement(LastBefore(ends, emitting[n]), emitting[n])]

\* The same with the accumulator cleared only at the lines with
\* </dependency> that are read inside the block.
C26_ClearedInsideTheBlock ==
  MavenScanned =>
    LET t == TrimmedLines(<<"p", "o", "m", ".", "x", "m", "l">>)
        ends == {i \in DOMAIN t : contains(t[i], <<"<", "/", "d", "e", "p", "e", "n", "d", "e", "n", "c", "y", ">">>) /\ InDependencies(i)}
        emitting == Ascending({i \in ends : PomValue(LastBefore(ends, i), i, <<"a", "r", "t", "i", "f", "a", "c", "t", "I", "d">>) # <<>>})
    IN  /\ Metadata.dependencies =
             [n \in DOMAIN emitting |->
                PomValue(LastBefore(ends, emitting[n]), emitting[n], <<"a", "r", "t", "i", "f", "a", "c", "t", "I", "d">>)]
        /\ Metadata.requirements =
             [n \in DOMAIN emitting |->
                PomRequirement(LastBefore(ends, emitting[n]), emitting[n])]

\* A dependency whose end shares its line with the end of the block, and a
\* second block with another dependency.
C26_LeakReached ==
  /\ MavenScanned
  /\ LET t == TrimmedLines(<<"p", "o", "m", ".", "x", "m", "l">>)
     IN  /\ Len(t) = 3
         /\ t[2] = <<"<", "/", "d", "e", "p", "e", "n", "d", "e", "n", "c", "y", ">", "<", "/", "d", "e", "p", "e", "n", "d", "e", "n", "c", "i", "e", "s", ">">>
         /\ t[3] = <<"<", "d", "e", "p", "e", "n", "d", "e", "n", "c", "i", "e", "s", ">", "<", "d", "e", "p", "e", "n", "d", "e", "n", "c", "y", ">", "<", "a", "r", "t", "i", "f", "a", "c", "t", "I", "d", ">", "b", "<", "/", "a", "r", "t", "i", "f", "a", "c", "t", "I", "d", ">", "<", "/", "d", "e", "p", "e", "n", "d", "e", "n", "c", "y", ">">>
  /\ Metadata.dependencies = <<<<"b">>>>
  /\ Metadata.requirements = <<<<"g", ":", "b", ":", "1">>>>

Phases == <<"detecting", "scanning", "metadata", "done">>

\* The events so far are the first phases, in order, the first two with no
\* files; a returned error has no event; a returned ScanResult has all four,
\* the last two with its total_files.
EventsInOrder ==
  /\ Len(events) <= Len(Phases)
  /\ \A i \in DOMAIN events : events[i].phase = Phases[i]
  /\ \A i \in DOMAIN events : i <= 2 => events[i].files_found = 0
  /\ (scanResult.some /\ ~scanResult.v.ok) => events = <<>>
  /\ (scanResult.some /\ scanResult.v.ok) =>
       /\ Len(events) = 4
       /\ events[3].files_found = scanResult.v.v.total_files
       /\ events[4].files_found = scanResult.v.v.total_files

\* In a step, events only gain a last element, and the result appears in a
\* step that emits nothing: when it is a ScanResult, the four events were
\* there before the step.
EventsThenResult ==
  /\ Len(events') >= Len(events) /\ SubSeq(events', 1, Len(events)) = events
  /\ Len(events') <= Len(events) + 1
  /\ (scanResult' # scanResult) =>
       /\ events' = events
       /\ scanResult'.v.ok => Len(events) = 4 /\ events[4].phase = "done"

\* C27: a run of scan_directory_async whose root is a directory emits the
\* four events "detecting", "scanning", "metadata", "done" in this order, each
\* once, with files_found 0 in the first two and the returned total_files in
\* the last two; "done" is there before the result is; a run whose root check
\* fails returns without an event.
C27_FourEventsThenResult == []EventsInOrder /\ [][EventsThenResult]_vars

\* A scan that returned a tree of two files and emitted its four events,
\* the last two with the count.
C27_Witness ==
  /\ scanResult.some /\ scanResult.v.ok
  /\ scanResult.v.v.total_files = 2
  /\ events = <<ScanProgress("detecting", 0), ScanProgress("scanning", 0),
                ScanProgress("metadata", 2), ScanProgress("done", 2)>>

\* A scan of a path that is no directory returned an error.
C27_WitnessFailed ==
  /\ scanReq.some /\ scanReq.v.async
  /\ scanResult.some /\ ~scanResult.v.ok
  /\ events = <<>>

\* C28: under every interleaving of start_watching and stop_watching at
\* most one watcher is alive, and it is the one WatcherState holds when it
\* holds one; a caller between its lock and its return holds the mutex, so
\* the old watcher is released and the new one created under it; when no
\* call is under way, WatcherState holds the watcher for the path of the
\* last start that returned Ok if that was the last call to return, and
\* none after a stop or a start that returned an error.
C28_AtMostOneWatcher ==
  /\ Len(alive) <= 1
  /\ watcher.some => alive = <<watcher.v>>
  /\ \A c \in Callers :
       callers[c].at \in {"clear", "new", "watch", "store"} => mutex = Some(c)
  /\ \A c \in Callers : callers[c].at \in {"new", "watch", "store"} => ~watcher.some
  /\ mutex = None =>
       IF lastCall.some /\ lastCall.v.cmd = "start" /\ lastCall.v.ok
       THEN watcher = Some(Watcher(lastCall.v.path))
       ELSE watcher = None

\* A start replaced the watcher of an earlier start while the other caller
\* waits for the lock.
C28_Witness ==
  /\ mutex = None
  /\ lastCall.some /\ lastCall.v.cmd = "start" /\ lastCall.v.ok
  /\ watcher = Some(Watcher(ProjRoot))
  /\ \E c \in Callers : callers[c].at = "lock" /\ callers[c].op = "stop"

\* A start for a path that is not there returned its error after it had
\* released the watcher of an earlier start.
C28_WitnessFailedStart ==
  /\ mutex = None
  /\ lastCall.some /\ lastCall.v.cmd = "start" /\ ~lastCall.v.ok
  /\ lastCall.v.path = NoSuchRoot
  /\ watcher = None /\ alive = <<>>


\* ---- C29 ----

\* The step is a save_project_config call on a project the file already holds.
SavesProject(p) ==
  /\ lastCall'.some /\ lastCall'.v.cmd = "save_project_config" /\ lastCall'.v.path = p
  /\ p \in DOMAIN config /\ p \in DOMAIN config'

\* C29: save_project_config(p, paths) changes only checked_paths and
\* last_opened of project p: its presets, its pinned flag and its
\* excluded_paths, and the entry of every other project, are the same after
\* the call as before it.
C29_OnlyCheckedAndOpened ==
  [][\A p \in Projects :
       SavesProject(p) =>
         /\ config'[p].presets = config[p].presets
         /\ config'[p].pinned = config[p].pinned
         /\ config'[p].excluded_paths = config[p].excluded_paths
         /\ \A q \in DOMAIN config \ {p} : q \in DOMAIN config' /\ config'[q] = config[q]]_vars

\* The part of C29 the code keeps: presets, pinned and the other projects.
C29_PresetsPinnedOthersKept ==
  [][\A p \in Projects :
       SavesProject(p) =>
         /\ config'[p].presets = config[p].presets
         /\ config'[p].pinned = config[p].pinned
         /\ config'[p].project_path = p
         /\ \A q \in DOMAIN config \ {p} : q \in DOMAIN config' /\ config'[q] = config[q]]_vars

\* save_preset and delete_preset leave the exclude rules of a project alone.
C29_PresetCallsKeepRules ==
  [][\A p \in DOMAIN config :
       (lastCall'.some /\ lastCall'.v.cmd \in {"save_preset", "delete_preset"})
         => p \in DOMAIN config' /\ config'[p].excluded_paths = config[p].excluded_paths]_vars

\* A successful save_project_config leaves its project without exclude rules:
\* load_exclude_rules then returns the empty list whatever was stored before.
C29_RulesEmptyAfterSave ==
  (lastCall.some /\ lastCall.v.cmd = "save_project_config" /\ lastCall.v.ok)
    => config[lastCall.v.path].excluded_paths = <<>>

\* A pinned project with a preset went through save_project_config and kept both.
C29_PinnedSaved ==
  /\ lastCall.some /\ lastCall.v.cmd = "save_project_config" /\ lastCall.v.ok
  /\ lastCall.v.path = "q" /\ config["q"].pinned /\ DOMAIN config["q"].presets # {}
  /\ config["q"].last_opened # decimal(0)

\* ---- C30 ----

\* The names of the prompts the file holds.
CustomNames == {custom_prompts(prompts)[i].name : i \in DOMAIN custom_prompts(prompts)}

\* C30 (the part the code does not keep): every custom prompt that was saved
\* under a name can be removed by delete_review_prompt_cmd with that name,
\* that is, the command does not refuse the name of any stored prompt.
C30_SavedPromptCanBeDeleted ==
  \A name \in CustomNames : ~names_a_builtin(prompts, name)

\* C30 (the parts the code keeps): the list starts with the three builtin
\* prompts, unchanged; a save with builtin = true and a delete of a builtin
\* name end in their errors.
C30_BuiltinsFirstAndUnchanged ==
  /\ SubSeq(load_review_prompts(prompts), 1, 3) = builtin_prompts
  /\ \A i \in DOMAIN custom_prompts(prompts) : ~custom_prompts(prompts)[i].builtin
  /\ (lastCall.some /\ lastCall.v.cmd = "list_review_prompts_cmd")
       => SubSeq(lastCall.v.ret, 1, 3) = builtin_prompts
  /\ (lastCall.some /\ lastCall.v.cmd = "save_review_prompt_cmd" /\ lastCall.v.path.builtin)
       => ~lastCall.v.ok /\ lastCall.v.ret = "Cannot modify builtin prompts"
  /\ (lastCall.some /\ lastCall.v.cmd = "delete_review_prompt_cmd"
        /\ \E i \in DOMAIN builtin_prompts : builtin_prompts[i].name = lastCall.v.path)
       => ~lastCall.v.ok /\ lastCall.v.ret = "Cannot delete builtin prompts"

\* A call that ends in an error writes nothing.
C30_RejectedWritesNothing ==
  [][(lastCall'.some /\ ~lastCall'.v.ok) => prompts' = prompts]_vars

\* A delete that is not refused and whose write succeeds removes the name.
C30_DeleteRemoves ==
  (lastCall.some /\ lastCall.v.cmd = "delete_review_prompt_cmd" /\ lastCall.v.ok)
    => lastCall.v.path \notin CustomNames

\* A custom prompt stored under a builtin's name, whose delete was refused.
C30_StuckPrompt ==
  /\ "Clean Code" \in CustomNames
  /\ lastCall.some /\ lastCall.v.cmd = "delete_review_prompt_cmd"
  /\ lastCall.v.path = "Clean Code" /\ ~lastCall.v.ok


====
